---- MODULE Spec2Model ----
(***************************************************************************)
(* The auth_akarin_rand protocol layer of shadowsocks/obfsplugin/          *)
(* auth_akarin.py as a state machine: one client session and the server    *)
(* sessions it talks to, the byte streams between them, and the server's   *)
(* shared replay guard.                                                    *)
(*                                                                         *)
(* Byte strings are sequences of 0..255.  The library primitives the       *)
(* source calls (hmac.new(..., md5).digest(), encrypt.Encryptor) are       *)
(* replaced by small keyed functions with the same interface: a 16-byte    *)
(* digest that depends on the key and on every byte of the data, and       *)
(* position-keyed stream ciphers.  Everything else (framing, length masks, *)
(* the padding PRNG, the counters, the replay guard) is computed as the    *)
(* source computes it.                                                     *)
(***************************************************************************)
EXTENDS Integers, Sequences, FiniteSets, TLC

(***************************************************************************)
(* Byte strings, Python slices, struct.pack / struct.unpack                *)
(***************************************************************************)
Min(a, b) == IF a <= b THEN a ELSE b

Max(a, b) == IF a >= b THEN a ELSE b

\* s[a:b] of Python for 0 <= a and 0 <= b (indices clamp to the length)
Slice(s, a, b) ==
  IF a >= Min(b, Len(s)) THEN << >> ELSE SubSeq(s, a + 1, Min(b, Len(s)))

\* s[a:]
Drop(s, a) == Slice(s, a, Len(s))

\* the value of a one-element set: Only({ e(x) : x \in {v} }) is e(v), and
\* names v once, the way a local variable of the source does
Only(S) == CHOOSE x \in S : TRUE

\* bytes([b]) * n
Rep(b, n) == [i \in 1..n |-> b]

Pow2 == <<1, 2, 4, 8, 16, 32, 64, 128>>

\* bit j (0 = least significant) of byte b
Bit(b, j) == (b \div Pow2[j + 1]) % 2

RECURSIVE XorN(_, _, _)
\* a ^ b on n-bit non-negative integers
XorN(a, b, n) ==
  IF n = 0 THEN 0
  ELSE ((a + b) % 2) + 2 * XorN(a \div 2, b \div 2, n - 1)

\* a ^ b on 16-bit words
Xor16(a, b) == XorN(a, b, 16)

\* bytewise xor of two equally long byte strings; on 4 bytes this is
\* struct.pack('<I', struct.unpack('<I', a)[0] ^ struct.unpack('<I', b)[0])
XorBytes(a, b) == [i \in 1..Len(a) |-> XorN(a[i], b[i], 8)]

\* struct.pack('<H', n) for 0 <= n <= 0xffff
pack_H(n) == <<n % 256, (n \div 256) % 256>>

\* struct.unpack('<H', s)[0] for a 2-byte s
unpack_H(s) == s[1] + 256 * s[2]

\* struct.pack('<I', n) for 0 <= n < 2^31
pack_I(n) ==
  <<n % 256, (n \div 256) % 256, (n \div 65536) % 256, (n \div 16777216) % 256>>

\* struct.unpack('<I', s)[0] for a 4-byte s below 2^31
unpack_I(s) == s[1] + 256 * s[2] + 65536 * s[3] + 16777216 * s[4]

(***************************************************************************)
(* 32-bit unsigned arithmetic on 4-byte little-endian strings (the values  *)
(* of int(time.time()) & 0xffffffff, pack_id, recv_id and connection_id    *)
(* range over all of 0 .. 2^32 - 1)                                        *)
(***************************************************************************)
RECURSIVE AddLE(_, _, _, _)
\* a + b + c on little-endian byte strings of equal length, from byte k on,
\* the carry out of the last byte dropped (the sum modulo 256^Len(a))
AddLE(a, b, k, c) ==
  IF k > Len(a) THEN << >>
  ELSE <<(a[k] + b[k] + c) % 256>>
       \o AddLE(a, b, k + 1, (a[k] + b[k] + c) \div 256)

\* (a + b) & 0xffffffff
Add32(a, b) == AddLE(a, b, 1, 0)

\* (-a) & 0xffffffff
Neg32(a) == AddLE([i \in 1..4 |-> 255 - a[i]], <<0, 0, 0, 0>>, 1, 1)

\* (a - b) & 0xffffffff
Sub32(a, b) == Add32(a, Neg32(b))

RECURSIVE LtLE(_, _, _)
\* a < b as unsigned little-endian numbers, comparing from byte k down
LtLE(a, b, k) ==
  IF k = 0 THEN FALSE
  ELSE IF a[k] # b[k] THEN a[k] < b[k]
  ELSE LtLE(a, b, k - 1)

\* a < b on 4-byte unsigned values
Lt32(a, b) == LtLE(a, b, 4)

Zero32 == <<0, 0, 0, 0>>

One32 == <<1, 0, 0, 0>>

(***************************************************************************)
(* hmac.new(key, data, hashlib.md5).digest(): a keyed 16-byte digest.      *)
(* Every byte of key and data, and its position, enters the digest; the    *)
(* first two bytes (the packet tag) determine the internal value.          *)
(***************************************************************************)
HashPrime == 32749

\* weight of position i
HashW(i) == 1 + ((i * 7919) % 32748)

RECURSIVE MixR(_, _, _)
MixR(s, lo, hi) ==
  IF lo > hi THEN 0
  ELSE IF lo = hi THEN ((s[lo] + 1) * HashW(lo)) % HashPrime
  ELSE (MixR(s, lo, (lo + hi) \div 2) + MixR(s, (lo + hi) \div 2 + 1, hi))
       % HashPrime

Mix(s) == (MixR(s, 1, Len(s)) + 977 * (Len(s) % 4096)) % HashPrime

\* the 16 digest bytes of the internal value h
Digest(h) ==
  [i \in 1..16 |->
     IF i = 1 THEN h % 256
     ELSE IF i = 2 THEN h \div 256
     ELSE (h * (2 * i + 1) + 37 * i + (h \div 256) * i) % 256]

hmac_md5(key, data) ==
  Digest((Mix(key) * 181 + Mix(data) * 3 + 1) % HashPrime)

(***************************************************************************)
(* base64.b64encode                                                        *)
(***************************************************************************)
\* the ASCII code of sextet v in the base64 alphabet
B64Char(v) ==
  IF v < 26 THEN 65 + v
  ELSE IF v < 52 THEN 97 + (v - 26)
  ELSE IF v < 62 THEN 48 + (v - 52)
  ELSE IF v = 62 THEN 43
  ELSE 47

RECURSIVE b64encode(_)
b64encode(s) ==
  IF Len(s) = 0 THEN << >>
  ELSE IF Len(s) = 1 THEN
    <<B64Char(s[1] \div 4), B64Char((s[1] % 4) * 16), 61, 61>>
  ELSE IF Len(s) = 2 THEN
    <<B64Char(s[1] \div 4), B64Char((s[1] % 4) * 16 + s[2] \div 16),
      B64Char((s[2] % 16) * 4), 61>>
  ELSE
    <<B64Char(s[1] \div 4), B64Char((s[1] % 4) * 16 + s[2] \div 16),
      B64Char((s[2] % 16) * 4 + s[3] \div 64), B64Char(s[3] % 64)>>
    \o b64encode(Drop(s, 3))

(***************************************************************************)
(* class xorshift128plus.  v0 and v1 are 64-bit words kept as 8 bytes,     *)
(* little-endian, and worked on as 64 bits.                                *)
(***************************************************************************)
ToBits(bs) == [i \in 0..63 |-> Bit(bs[(i \div 8) + 1], i % 8)]

\* byte k (0-based) of the 64-bit word x
ByteOf(x, o) ==
  x[o] + 2 * x[o + 1] + 4 * x[o + 2] + 8 * x[o + 3] + 16 * x[o + 4]
  + 32 * x[o + 5] + 64 * x[o + 6] + 128 * x[o + 7]

FromBits(x) == [k \in 1..8 |-> ByteOf(x, 8 * (k - 1))]

Xor64(a, b) == [i \in 0..63 |-> (a[i] + b[i]) % 2]

\* x & mov_mask, mov_mask = (1 << (64 - 23)) - 1
AndMovMask(x) == [i \in 0..63 |-> IF i < 64 - 23 THEN x[i] ELSE 0]

\* a left shift that loses every bit
Shl64_drop(x, k) == [i \in 0..63 |-> 0]

\* x << k for an x whose bits above 63 - k are clear
Shl64(x, k) == [i \in 0..63 |-> IF i >= k THEN x[i - k] ELSE 0]

\* x >> k
Shr64(x, k) == [i \in 0..63 |-> IF i + k <= 63 THEN x[i + k] ELSE 0]

RECURSIVE Mod64R(_, _, _)
Mod64R(bs, k, m) ==
  IF k > Len(bs) THEN 0 ELSE (Mod64R(bs, k + 1, m) * 256 + bs[k]) % m

\* v % m for a 64-bit v (8 bytes, little-endian) and 0 < m <= 0xffff
Mod64(bs, m) == Mod64R(bs, 1, m)

\* xorshift128plus.__init__
xorshift128plus == [v0 |-> Rep(0, 8), v1 |-> Rep(0, 8)]

\* xorshift128plus.next: the new state and the value returned
next(r) ==
  Only({ Only({ Only({
      [v0 |-> r.v1, v1 |-> xb, out |-> AddLE(xb, r.v1, 1, 0)]
    : xb \in {FromBits(Xor64(x1, Xor64(y, Xor64(Shr64(x1, 17),
                                                Shr64(y, 26)))))} })
    : x1 \in {Xor64(x0, Shl64(AndMovMask(x0), 23))} })
    : x0 \in {ToBits(r.v0)}, y \in {ToBits(r.v1)} })

\* if len(bin) < 16: bin += b'\0' * 16
Pad16(bin) == IF Len(bin) < 16 THEN bin \o Rep(0, 16) ELSE bin

\* xorshift128plus.init_from_bin
init_from_bin(bin) ==
  [v0 |-> Slice(Pad16(bin), 0, 8), v1 |-> Slice(Pad16(bin), 8, 16)]

\* xorshift128plus.init_from_bin_len
init_from_bin_len(bin, length) ==
  [v0 |-> pack_H(length) \o Slice(Pad16(bin), 2, 8),
   v1 |-> Slice(Pad16(bin), 8, 16)]

\* random.init_from_bin_len(last_hash, buf_size); random.next() % m: the
\* generator afterwards, the value, and whether the modulo raised
\* ZeroDivisionError (next() has run by then)
SeededNextMod(last_hash, buf_size, m) ==
  Only({ [random |-> [v0 |-> n.v0, v1 |-> n.v1],
          val |-> IF m = 0 THEN 0 ELSE Mod64(n.out, m),
          exc |-> (m = 0)]
       : n \in {next(init_from_bin_len(last_hash, buf_size))} })

(***************************************************************************)
(* encrypt.Encryptor: a cipher with separate encrypt and decrypt           *)
(* half-states.  The first encrypt emits the encrypt IV unless it was      *)
(* marked as sent by an encrypt of the empty string; the decrypt IV is the *)
(* first iv_len bytes handed to decrypt.                                   *)
(***************************************************************************)
IvLen(method) == IF method = "aes-128-cbc" THEN 16 ELSE 8

CipherSeed(kmix, iv) == (kmix * 7 + Mix(iv)) % HashPrime

KeyStream(seed, p) == (seed + 131 * p + (seed \div 256) * (p % 7)) % 256

\* cipher.update(buf) at stream position pos
cipher_update(seed, pos, buf) ==
  [i \in 1..Len(buf) |-> (buf[i] + KeyStream(seed, pos + i - 1)) % 256]

\* decipher.update(buf) at stream position pos
decipher_update(seed, pos, buf) ==
  [i \in 1..Len(buf) |-> (buf[i] + 256 - KeyStream(seed, pos + i - 1)) % 256]

\* self.encryptor = None
NoEncryptor ==
  [set |-> FALSE, method |-> "", kmix |-> 0, cipher_iv |-> << >>,
   iv_sent |-> FALSE, epos |-> 0, iv_buf |-> << >>, has_decipher |-> FALSE,
   decipher_iv |-> << >>, dpos |-> 0]

\* encrypt.Encryptor(key, method, iv)
Encryptor(key, method, iv) ==
  [set |-> TRUE, method |-> method, kmix |-> Mix(key),
   cipher_iv |-> Slice(iv, 0, IvLen(method)),
   iv_sent |-> FALSE, epos |-> 0, iv_buf |-> << >>, has_decipher |-> FALSE,
   decipher_iv |-> << >>, dpos |-> 0]

\* Encryptor.encrypt(buf): the encryptor afterwards and the bytes returned
encrypt(e, buf) ==
  IF Len(buf) = 0 THEN
    IF ~e.iv_sent THEN [e |-> [e EXCEPT !.iv_sent = TRUE], out |-> e.cipher_iv]
    ELSE [e |-> e, out |-> buf]
  ELSE
    [e |-> [e EXCEPT !.iv_sent = TRUE, !.epos = e.epos + Len(buf)],
     out |-> (IF e.iv_sent THEN << >> ELSE e.cipher_iv)
             \o cipher_update(CipherSeed(e.kmix, e.cipher_iv), e.epos, buf)]

\* Encryptor.decrypt(buf): the encryptor afterwards and the bytes returned
decrypt(e, buf) ==
  IF Len(buf) = 0 THEN [e |-> e, out |-> buf]
  ELSE IF e.has_decipher THEN
    [e |-> [e EXCEPT !.dpos = e.dpos + Len(buf)],
     out |-> decipher_update(CipherSeed(e.kmix, e.decipher_iv), e.dpos, buf)]
  ELSE
    Only({ IF Len(ivb) > n THEN
             [e |-> [e EXCEPT !.has_decipher = TRUE,
                              !.decipher_iv = Slice(ivb, 0, n),
                              !.iv_buf = << >>, !.dpos = Len(ivb) - n],
              out |-> decipher_update(CipherSeed(e.kmix, Slice(ivb, 0, n)), 0,
                                      Drop(ivb, n))]
           ELSE [e |-> [e EXCEPT !.iv_buf = ivb], out |-> << >>]
         : n \in {IvLen(e.method)},
           ivb \in {IF Len(e.iv_buf) <= IvLen(e.method)
                    THEN e.iv_buf \o buf ELSE e.iv_buf} })

(***************************************************************************)
(* class client_queue                                                      *)
(***************************************************************************)
\* client_queue.__init__(begin_id), at time now
client_queue(begin_id, now) ==
  [front |-> begin_id - 64, back |-> begin_id + 1, alloc |-> {},
   enable |-> TRUE, last_update |-> now, ref |-> 0]

\* client_queue.update
cq_update(q, now) == [q EXCEPT !.last_update = now]

\* client_queue.addref
addref(q) == [q EXCEPT !.ref = q.ref + 1]

\* client_queue.delref
delref(q) == IF q.ref > 0 THEN [q EXCEPT !.ref = q.ref - 1] ELSE q

\* is_active answering that no queue is active
is_active_never(q, now) == FALSE

\* client_queue.is_active: time.time() - last_update < 60 * 10
is_active(q, now) ==
  (q.ref > 0) /\ Lt32(Sub32(now, q.last_update), pack_I(60 * 10))

\* re_enable leaving alloc as it is
re_enable_keep(q, connection_id) ==
  [q EXCEPT !.enable = TRUE, !.front = connection_id - 64,
            !.back = connection_id + 1]

\* client_queue.re_enable
re_enable(q, connection_id) ==
  [q EXCEPT !.enable = TRUE, !.front = connection_id - 64,
            !.back = connection_id + 1, !.alloc = {}]

RECURSIVE cq_advance_keep(_)
\* the while loop moving front without deleting from alloc
cq_advance_keep(q) ==
  IF (q.front \in q.alloc) \/ (q.front + 4096 < q.back) THEN
    cq_advance_keep([q EXCEPT !.front = q.front + 1])
  ELSE q

RECURSIVE cq_advance_contiguous(_)
\* the while loop without its second condition
cq_advance_contiguous(q) ==
  IF q.front \in q.alloc THEN
    cq_advance_contiguous([q EXCEPT !.alloc = q.alloc \ {q.front},
                                    !.front = q.front + 1])
  ELSE q

RECURSIVE cq_rounds(_, _)
\* at most n rounds of the while loop of client_queue.insert
cq_rounds(q, n) ==
  IF n > 0 /\ ((q.front \in q.alloc) \/ (q.front + 4096 < q.back)) THEN
    cq_rounds([q EXCEPT !.alloc = q.alloc \ {q.front}, !.front = q.front + 1],
              n - 1)
  ELSE q

RECURSIVE cq_advance(_)
\* the while loop of client_queue.insert, its rounds taken 64 at a time to
\* keep the evaluation shallow
cq_advance(q) ==
  IF (q.front \in q.alloc) \/ (q.front + 4096 < q.back) THEN
    Only({ cq_advance(q2) : q2 \in {cq_rounds(q, 64)} })
  ELSE q

\* client_queue.insert without the test for a duplicate id
cq_insert_dup(q, connection_id, now) ==
  IF ~q.enable THEN [q |-> q, ok |-> FALSE]
  ELSE
    Only({ IF connection_id < q2.front THEN [q |-> q2, ok |-> FALSE]
           ELSE IF connection_id > q2.front + 16384 THEN [q |-> q2, ok |-> FALSE]
           ELSE
             [q |-> addref(cq_advance(
                      [q2 EXCEPT !.back = IF @ <= connection_id
                                          THEN connection_id + 1 ELSE @,
                                 !.alloc = @ \cup {connection_id}])),
              ok |-> TRUE]
         : q2 \in {cq_update(IF ~is_active(q, now)
                             THEN re_enable(q, connection_id) ELSE q, now)} })

\* client_queue.insert: the queue afterwards and the value returned
cq_insert(q, connection_id, now) ==
  IF ~q.enable THEN [q |-> q, ok |-> FALSE]
  ELSE
    Only({ IF connection_id < q2.front THEN [q |-> q2, ok |-> FALSE]
           ELSE IF connection_id > q2.front + 16384 THEN [q |-> q2, ok |-> FALSE]
           ELSE IF connection_id \in q2.alloc THEN [q |-> q2, ok |-> FALSE]
           ELSE
             [q |-> addref(cq_advance(
                      [q2 EXCEPT !.back = IF @ <= connection_id
                                          THEN connection_id + 1 ELSE @,
                                 !.alloc = @ \cup {connection_id}])),
              ok |-> TRUE]
         : q2 \in {cq_update(IF ~is_active(q, now)
                             THEN re_enable(q, connection_id) ELSE q, now)} })

(***************************************************************************)
(* lru_cache.LRUCache as obfs_auth_akarin_data uses it: the keys in order  *)
(* of last access (oldest first) and the queue stored under each key.      *)
(***************************************************************************)
LRUCache == [order |-> << >>, store |-> << >>]

\* key in cache
lru_contains(t, key) == \E i \in 1..Len(t.order) : t.order[i] = key

\* the position of key in the access order
lru_pos(t, key) == CHOOSE i \in 1..Len(t.order) : t.order[i] = key

\* sequence s without its element i
Without(s, i) == SubSeq(s, 1, i - 1) \o SubSeq(s, i + 1, Len(s))

\* the access order with key moved to the most recent end
lru_touch(t, key) ==
  [order |-> Without(t.order, lru_pos(t, key)) \o <<key>>,
   store |-> Without(t.store, lru_pos(t, key))
             \o <<t.store[lru_pos(t, key)]>>]

\* the queue stored under key (cache[key] without its access-order effect)
lru_value(t, key) == t.store[lru_pos(t, key)]

\* cache[key] = value
lru_set(t, key, value) ==
  IF lru_contains(t, key) THEN
    [order |-> Without(t.order, lru_pos(t, key)) \o <<key>>,
     store |-> Without(t.store, lru_pos(t, key)) \o <<value>>]
  ELSE [order |-> Append(t.order, key), store |-> Append(t.store, value)]

\* del cache[key]
lru_del(t, key) ==
  [order |-> Without(t.order, lru_pos(t, key)),
   store |-> Without(t.store, lru_pos(t, key))]

\* len(cache)
lru_len(t) == Len(t.order)

\* cache.first() of a non-empty cache: the least recently accessed key
lru_first(t) == t.order[1]

(***************************************************************************)
(* class obfs_auth_akarin_data                                             *)
(***************************************************************************)
\* None, for user_id and user_key: a value that is no byte string
None == <<-1>>

\* obfs_auth_akarin_data.__init__ (set_max_client(64) included)
obfs_auth_akarin_data ==
  [user_id |-> << >>, local_client_id |-> << >>, connection_id |-> Zero32,
   max_client |-> 64, max_buffer |-> 1024]

\* obfs_auth_akarin_data.set_max_client
set_max_client(d, max_client) ==
  [d EXCEPT !.max_client = max_client,
            !.max_buffer = Max(max_client * 2, 1024)]

\* self.user_id[user_id], created when absent
user_table(d, user_id) ==
  IF user_id \in DOMAIN d.user_id THEN d.user_id[user_id] ELSE LRUCache

\* self.user_id[user_id] = t
with_table(d, user_id, t) ==
  [d EXCEPT !.user_id =
     [u \in (DOMAIN d.user_id) \cup {user_id} |->
        IF u = user_id THEN t ELSE d.user_id[u]]]

\* obfs_auth_akarin_data.update
data_update(d, user_id, client_id, connection_id, now) ==
  Only({ IF lru_contains(t, client_id)
         THEN with_table(d, user_id,
                lru_set(t, client_id, cq_update(lru_value(t, client_id), now)))
         ELSE with_table(d, user_id, t)
       : t \in {user_table(d, user_id)} })

\* return local_client_id[client_id].insert(connection_id), t being
\* local_client_id
queue_insert(d, user_id, t, client_id, connection_id, now) ==
  Only({ [d |-> with_table(d, user_id, lru_set(t, client_id, r.q)),
          ok |-> r.ok]
       : r \in {cq_insert(lru_value(t, client_id), connection_id, now)} })

\* the two identical branches of obfs_auth_akarin_data.insert that install
\* or re-enable the queue of client_id and insert into it
install_and_insert(d, user_id, t, client_id, connection_id, now) ==
  queue_insert(d, user_id,
               IF ~lru_contains(t, client_id)
               THEN lru_set(t, client_id, client_queue(connection_id, now))
               ELSE lru_set(t, client_id,
                            re_enable(lru_value(t, client_id), connection_id)),
               client_id, connection_id, now)

\* obfs_auth_akarin_data.insert installing a queue whatever the table holds
data_insert_unbounded(d, user_id, client_id, connection_id, now) ==
  \* t1: local_client_id.get(client_id, None) is an access;
  \* local_client_id[local_client_id.first()] is an access too
  Only({ IF ~lru_contains(t1, client_id) \/ ~lru_value(t1, client_id).enable
         THEN
           IF lru_len(t1) = 0 \/ lru_len(t1) <= d.max_client THEN
             install_and_insert(d, user_id, t1, client_id, connection_id, now)
           ELSE IF ~is_active(lru_value(t1, lru_first(t1)), now) THEN
             install_and_insert(
               d, user_id,
               lru_del(lru_touch(t1, lru_first(t1)),
                       lru_first(lru_touch(t1, lru_first(t1)))),
               client_id, connection_id, now)
           ELSE [d |-> with_table(d, user_id, lru_touch(t1, lru_first(t1))),
                 ok |-> FALSE]
         ELSE queue_insert(d, user_id, t1, client_id, connection_id, now)
       : t1 \in {IF lru_contains(user_table(d, user_id), client_id)
                 THEN lru_touch(user_table(d, user_id), client_id)
                 ELSE user_table(d, user_id)} })

\* obfs_auth_akarin_data.insert: the data afterwards and the value returned
data_insert(d, user_id, client_id, connection_id, now) ==
  \* t1: local_client_id.get(client_id, None) is an access;
  \* local_client_id[local_client_id.first()] is an access too
  Only({ IF ~lru_contains(t1, client_id) \/ ~lru_value(t1, client_id).enable
         THEN
           IF lru_len(t1) = 0 \/ lru_len(t1) < d.max_client THEN
             install_and_insert(d, user_id, t1, client_id, connection_id, now)
           ELSE IF ~is_active(lru_value(t1, lru_first(t1)), now) THEN
             install_and_insert(
               d, user_id,
               lru_del(lru_touch(t1, lru_first(t1)),
                       lru_first(lru_touch(t1, lru_first(t1)))),
               client_id, connection_id, now)
           ELSE [d |-> with_table(d, user_id, lru_touch(t1, lru_first(t1))),
                 ok |-> FALSE]
         ELSE queue_insert(d, user_id, t1, client_id, connection_id, now)
       : t1 \in {IF lru_contains(user_table(d, user_id), client_id)
                 THEN lru_touch(user_table(d, user_id), client_id)
                 ELSE user_table(d, user_id)} })

\* obfs_auth_akarin_data.remove
data_remove(d, user_id, client_id) ==
  IF user_id \in DOMAIN d.user_id THEN
    IF lru_contains(d.user_id[user_id], client_id)
    THEN with_table(d, user_id,
           lru_set(d.user_id[user_id], client_id,
                   delref(lru_value(d.user_id[user_id], client_id))))
    ELSE d
  ELSE d

(***************************************************************************)
(* class auth_akarin_rand: construction                                    *)
(***************************************************************************)
\* b"auth_akarin_rand"
salt ==
  <<97, 117, 116, 104, 95, 97, 107, 97, 114, 105, 110, 95, 114, 97, 110, 100>>

\* auth_base.__init__ and auth_akarin_rand.__init__ for the given method
\* name, followed by set_server_info(server_info)
auth_akarin_rand(method, server_info) ==
  [method |-> method, no_compatible_method |-> "auth_akarin_rand",
   overhead |-> 4, raw_trans |-> FALSE, recv_buf |-> << >>,
   unit_len |-> 2800, has_sent_header |-> FALSE, has_recv_header |-> FALSE,
   client_id |-> Zero32, connection_id |-> 0, max_time_dif |-> 60 * 60 * 24,
   pack_id |-> One32, recv_id |-> One32, user_id |-> None,
   user_id_num |-> Zero32, user_key |-> None, client_over_head |-> 4,
   last_client_hash |-> << >>, last_server_hash |-> << >>,
   random_client |-> xorshift128plus, random_server |-> xorshift128plus,
   encryptor |-> NoEncryptor, new_send_tcp_mss |-> 2000,
   send_tcp_mss |-> 2000, recv_tcp_mss |-> 2000, send_back_cmd |-> << >>,
   server_info |-> server_info]

\* auth_akarin_rand.get_overhead
get_overhead(o, direction) == o.overhead

\* b'E' * 2048
PoisonE == Rep(69, 2048)

\* not_match_return answering with the bytes received instead of the 'E's
not_match_return_echo(o, buf) ==
  [o |-> [o EXCEPT !.raw_trans = TRUE, !.overhead = 0], ret |-> buf,
   sendback |-> FALSE]

\* not_match_return leaving self.overhead as it is
not_match_return_keep(o, buf) ==
  [o |-> [o EXCEPT !.raw_trans = TRUE],
   ret |-> IF o.method = o.no_compatible_method THEN PoisonE ELSE buf,
   sendback |-> FALSE]

\* auth_base.not_match_return: the session afterwards and the pair returned
not_match_return(o, buf) ==
  [o |-> [o EXCEPT !.raw_trans = TRUE, !.overhead = 0],
   ret |-> IF o.method = o.no_compatible_method THEN PoisonE ELSE buf,
   sendback |-> FALSE]

(***************************************************************************)
(* Padding lengths                                                         *)
(***************************************************************************)
NoPad(random) == [random |-> random, val |-> 0, exc |-> FALSE]

\* auth_akarin_rand.send_rnd_data_len
send_rnd_data_len(o, buf_size, last_hash, random) ==
  IF buf_size + o.server_info.overhead > o.send_tcp_mss THEN
    SeededNextMod(last_hash, buf_size, 521)
  ELSE IF buf_size >= 1440
          \/ buf_size + o.server_info.overhead = o.send_tcp_mss THEN
    NoPad(random)
  ELSE IF buf_size > 1300 THEN SeededNextMod(last_hash, buf_size, 31)
  ELSE IF buf_size > 900 THEN SeededNextMod(last_hash, buf_size, 127)
  ELSE IF buf_size > 400 THEN SeededNextMod(last_hash, buf_size, 521)
  ELSE SeededNextMod(last_hash, buf_size,
                     o.send_tcp_mss - buf_size - o.server_info.overhead)

\* auth_akarin_rand.recv_rnd_data_len
recv_rnd_data_len(o, buf_size, last_hash, random) ==
  IF buf_size + o.server_info.overhead > o.recv_tcp_mss THEN
    SeededNextMod(last_hash, buf_size, 521)
  ELSE IF buf_size >= 1440
          \/ buf_size + o.server_info.overhead = o.send_tcp_mss THEN
    NoPad(random)
  ELSE IF buf_size > 1300 THEN SeededNextMod(last_hash, buf_size, 31)
  ELSE IF buf_size > 900 THEN SeededNextMod(last_hash, buf_size, 127)
  ELSE IF buf_size > 400 THEN SeededNextMod(last_hash, buf_size, 521)
  ELSE SeededNextMod(last_hash, buf_size,
                     o.recv_tcp_mss - buf_size - o.server_info.overhead)

\* auth_akarin_rand.rnd_data; rand_bytes(rand_len) is rand_len bytes fill
rnd_data(o, buf_size, buf, last_hash, random, fill) ==
  Only({ [random |-> r.random, exc |-> r.exc,
          data |-> IF buf_size = 0 THEN Rep(fill, r.val)
                   ELSE IF r.val > 0 THEN buf \o Rep(fill, r.val)
                   ELSE buf]
       : r \in {send_rnd_data_len(o, buf_size, last_hash, random)} })

(***************************************************************************)
(* protocol_param of the client: b"<uid>:<key>" pins the user              *)
(***************************************************************************)
\* b':' in param
HasColon(param) == \E i \in 1..Len(param) : param[i] = 58

\* the index of the first b':' at or after position k, Len(param) + 1 if none
ColonFrom(param, k) ==
  IF \E i \in k..Len(param) : param[i] = 58
  THEN CHOOSE i \in k..Len(param) :
         param[i] = 58 /\ \A j \in k..(i - 1) : param[j] # 58
  ELSE Len(param) + 1

\* param.split(b':')[0]
Item0(param) == SubSeq(param, 1, ColonFrom(param, 1) - 1)

\* param.split(b':')[1]
Item1(param) ==
  SubSeq(param, ColonFrom(param, 1) + 1,
         ColonFrom(param, ColonFrom(param, 1) + 1) - 1)

\* whether int(digits) succeeds and struct.pack('<I', ...) takes the value:
\* a decimal numeral of at most 9 digits
IsNumeral(ds) ==
  Len(ds) \in 1..9 /\ \A i \in 1..Len(ds) : ds[i] \in 48..57

RECURSIVE ParseInt(_, _)
\* int(ds) for a decimal numeral, acc the value of the digits read so far
ParseInt(ds, acc) ==
  IF Len(ds) = 0 THEN acc
  ELSE ParseInt(Drop(ds, 1), acc * 10 + (ds[1] - 48))

\* client_words masking both words with last_client_hash[14:16]
client_words_one_mask(o, ct_len, data) ==
  IF Len(o.send_back_cmd) > 0 THEN
    pack_H(Xor16(65280, unpack_H(Slice(o.last_client_hash, 14, 16))))
    \o pack_H(Xor16(ct_len, unpack_H(Slice(o.last_client_hash, 14, 16))))
    \o data
  ELSE
    pack_H(Xor16(ct_len, unpack_H(Slice(o.last_client_hash, 14, 16))))
    \o data

(***************************************************************************)
(* Packing                                                                 *)
(***************************************************************************)
\* the length words of pack_client_data in front of the padded ciphertext
\* data, ct_len = len(buf) after encryption
client_words(o, ct_len, data) ==
  IF Len(o.send_back_cmd) > 0 THEN
    pack_H(Xor16(65280, unpack_H(Slice(o.last_client_hash, 14, 16))))
    \o pack_H(Xor16(ct_len, unpack_H(Slice(o.last_client_hash, 12, 14))))
    \o data
  ELSE
    pack_H(Xor16(ct_len, unpack_H(Slice(o.last_client_hash, 14, 16))))
    \o data

\* auth_akarin_rand.pack_client_data: the session afterwards, the packet,
\* whether it raised, and whether the packet carries the command prefix
pack_client_data(o, buf, fill) ==
  Only({ Only({
    IF rd.exc THEN
      [o |-> [o EXCEPT !.encryptor = en.e,
                       !.send_tcp_mss = IF cmd THEN o.recv_tcp_mss ELSE @,
                       !.random_client = rd.random],
       data |-> << >>, exc |-> "ZeroDivisionError", with_cmd |-> cmd]
    ELSE
      Only({ [o |-> [o EXCEPT !.encryptor = en.e,
                              !.send_tcp_mss = IF cmd THEN o.recv_tcp_mss
                                               ELSE @,
                              !.random_client = rd.random,
                              !.last_client_hash = h,
                              !.pack_id = Add32(o.pack_id, One32)],
              data |-> client_words(o, Len(en.out), rd.data) \o Slice(h, 0, 2),
              exc |-> "", with_cmd |-> cmd]
           : h \in {hmac_md5(o.user_key \o o.pack_id,
                             client_words(o, Len(en.out), rd.data))} })
    : rd \in {rnd_data([o EXCEPT !.send_tcp_mss = IF cmd THEN o.recv_tcp_mss
                                                  ELSE @],
                       Len(en.out) + (IF cmd THEN 2 ELSE 0), en.out,
                       o.last_client_hash, o.random_client, fill)} })
    : en \in {encrypt(o.encryptor, buf)},
      cmd \in {Len(o.send_back_cmd) > 0} })

\* the length word pack_server_data puts before the ct_len bytes of a packet
server_words(o, ct_len) ==
  pack_H(Xor16(ct_len, unpack_H(Slice(o.last_server_hash, 14, 16))))

\* auth_akarin_rand.pack_server_data; before the handshake self.encryptor is
\* None and the first statement raises AttributeError
pack_server_data(o, buf, fill) ==
  IF ~o.encryptor.set THEN [o |-> o, data |-> << >>, exc |-> "AttributeError"]
  ELSE
  Only({ Only({
    IF rd.exc THEN
      [o |-> [o EXCEPT !.encryptor = en.e, !.random_server = rd.random],
       data |-> << >>, exc |-> "ZeroDivisionError"]
    ELSE
      Only({ [o |-> [o EXCEPT !.encryptor = en.e,
                              !.random_server = rd.random,
                              !.last_server_hash = h,
                              !.send_tcp_mss = IF o.pack_id = One32
                                               THEN o.new_send_tcp_mss ELSE @,
                              !.pack_id = Add32(o.pack_id, One32)],
              data |-> server_words(o, Len(en.out))
                       \o rd.data \o Slice(h, 0, 2),
              exc |-> ""]
           : h \in {hmac_md5(o.user_key \o o.pack_id,
                       server_words(o, Len(en.out))
                       \o rd.data)} })
    : rd \in {rnd_data(o, Len(en.out), en.out, o.last_server_hash,
                       o.random_server, fill)} })
    : en \in {encrypt(o.encryptor, buf)} })

\* auth_data regenerating as soon as connection_id reaches 0xFF000000
auth_data_early(d, now, cid, conn) ==
  Only({ Only({
    [d |-> [d2 EXCEPT !.connection_id = Add32(@, One32)],
     data |-> now \o d2.local_client_id \o Add32(d2.connection_id, One32)]
    : d2 \in {IF Len(d1.local_client_id) = 0
              THEN [d1 EXCEPT !.local_client_id = cid,
                              !.connection_id =
                                <<conn[1], conn[2], conn[3], 0>>]
              ELSE d1} })
    : d1 \in {IF ~Lt32(d.connection_id, <<0, 0, 0, 255>>)
              THEN [d EXCEPT !.local_client_id = << >>] ELSE d} })

\* auth_akarin_rand.auth_data on the client's data handle d at time now; cid
\* and conn are the values rand_bytes(4) returns when it is called: the
\* data handle afterwards and the 12 bytes returned
auth_data(d, now, cid, conn) ==
  Only({ Only({
    [d |-> [d2 EXCEPT !.connection_id = Add32(@, One32)],
     data |-> now \o d2.local_client_id \o Add32(d2.connection_id, One32)]
    : d2 \in {IF Len(d1.local_client_id) = 0
              THEN [d1 EXCEPT !.local_client_id = cid,
                              !.connection_id =
                                <<conn[1], conn[2], conn[3], 0>>]
              ELSE d1} })
    : d1 \in {IF Lt32(<<0, 0, 0, 255>>, d.connection_id)
              THEN [d EXCEPT !.local_client_id = << >>] ELSE d} })

\* self.user_key after the protocol_param branch of pack_auth_data
auth_user_key(o) ==
  IF HasColon(o.server_info.protocol_param)
  THEN Item1(o.server_info.protocol_param)
  ELSE IF o.user_key = None THEN o.server_info.key ELSE o.user_key

\* uid after the protocol_param branch of pack_auth_data
auth_uid(o, uid_rand) ==
  IF HasColon(o.server_info.protocol_param)
     /\ IsNumeral(Item0(o.server_info.protocol_param))
  THEN pack_I(ParseInt(Item0(o.server_info.protocol_param), 0))
  ELSE uid_rand

\* auth_akarin_rand.pack_auth_data; mss is struct.unpack('>H',
\* rand_bytes(2))[0] % 1024 + 400, check_head and uid_rand the values of
\* rand_bytes(4)
pack_auth_data(o, auth, buf, mss, check_head, uid_rand, fill) ==
  Only({ Only({ Only({ Only({
    [o |-> pk.o,
     data |-> check_head \o Slice(lch, 0, 8) \o data \o Slice(lsh, 0, 4)
              \o pk.data,
     exc |-> pk.exc, with_cmd |-> pk.with_cmd]
    : pk \in {pack_client_data(
               [o EXCEPT !.send_tcp_mss = mss, !.last_client_hash = lch,
                         !.user_key = user_key, !.last_server_hash = lsh,
                         !.encryptor =
                           decrypt(encrypt(Encryptor(b64encode(user_key)
                                                     \o b64encode(lch),
                                                     "chacha20",
                                                     Slice(lch, 0, 8)),
                                           << >>).e,
                                   Slice(lsh, 0, 8)).e],
               buf, fill)} })
    : lsh \in {hmac_md5(user_key, data)} })
    : data \in {XorBytes(auth_uid(o, uid_rand), Slice(lch, 8, 12))
                \o Drop(encrypt(Encryptor(b64encode(user_key) \o salt,
                                          "aes-128-cbc", Rep(0, 16)),
                                auth \o pack_H(o.server_info.overhead)
                                \o pack_H(mss)).out, 16)} })
    : lch \in {hmac_md5(o.server_info.iv \o o.server_info.key, check_head)},
      user_key \in {auth_user_key(o)} })

(***************************************************************************)
(* The sending handlers                                                    *)
(***************************************************************************)
\* plain.get_head_size
get_head_size(buf, def_value) ==
  IF Len(buf) < 2 THEN def_value
  ELSE IF buf[1] % 8 = 1 THEN 7
  ELSE IF buf[1] % 8 = 4 THEN 19
  ELSE IF buf[1] % 8 = 3 THEN 4 + buf[2]
  ELSE def_value

\* what is recorded of a packet emitted: its length on the wire, the length
\* of the plaintext in it and whether it carries the command prefix
Packet(data, buf, with_cmd) ==
  [len |-> Len(data), plain |-> Len(buf), cmd |-> with_cmd]

\* ret += data, with the packet recorded, in front of the result r of the
\* rest of the loop
Joined(data, packet, r) ==
  [o |-> r.o, data |-> data \o r.data, exc |-> r.exc,
   pks |-> <<packet>> \o r.pks]

\* the result of the last pack call pk of a sending handler
LastUnit(pk, buf, with_cmd) ==
  [o |-> pk.o, data |-> pk.data, exc |-> pk.exc,
   pks |-> IF pk.exc = "" THEN <<Packet(pk.data, buf, with_cmd)>> ELSE << >>]

RECURSIVE ClientUnits(_, _, _)
\* the loop of client_pre_encrypt and the pack_client_data call after it:
\* the session, the bytes emitted, the exception raised if any, and the
\* packets emitted
ClientUnits(o, buf, fill) ==
  IF Len(buf) > o.unit_len THEN
    IF o.unit_len <= 0 THEN
      [o |-> o, data |-> << >>, exc |-> "nontermination", pks |-> << >>]
    ELSE
      Only({ IF pk.exc # "" THEN
               [o |-> pk.o, data |-> << >>, exc |-> pk.exc, pks |-> << >>]
             ELSE
               Joined(pk.data,
                      Packet(pk.data, Slice(buf, 0, o.unit_len), pk.with_cmd),
                      ClientUnits(pk.o, Drop(buf, o.unit_len), fill))
           : pk \in {pack_client_data(o, Slice(buf, 0, o.unit_len), fill)} })
  ELSE
    Only({ LastUnit(pk, buf, pk.with_cmd)
         : pk \in {pack_client_data(o, buf, fill)} })

\* the first branch of client_pre_encrypt once auth_data has returned ad
\* and datalen is chosen
SendHeader(o, ad, buf, datalen, rnd, fill) ==
  Only({ IF pa.exc # "" THEN
           [o |-> pa.o, d |-> ad.d, ret |-> << >>, exc |-> pa.exc, hs |-> 0,
            pks |-> << >>]
         ELSE
           Only({ [o |-> r.o, d |-> ad.d,
                   ret |-> IF r.exc = "" THEN pa.data \o r.data ELSE << >>,
                   exc |-> r.exc, hs |-> 36,
                   pks |-> <<[len |-> Len(pa.data) - 36, plain |-> datalen,
                              cmd |-> pa.with_cmd]>> \o r.pks]
                : r \in {ClientUnits([pa.o EXCEPT !.has_sent_header = TRUE],
                                     Drop(buf, datalen), fill)} })
       : pa \in {pack_auth_data(o, ad.data, Slice(buf, 0, datalen), rnd.mss,
                                rnd.check_head, rnd.uid, fill)} })

\* auth_akarin_rand.client_pre_encrypt on session o with data handle d at
\* time now; rnd holds the values the random sources return in this call
\* (randint, cid, conn, mss, check_head, uid).  hs is the number of
\* handshake bytes that open the bytes returned.
client_pre_encrypt(o, d, buf, now, rnd, fill) ==
  IF ~o.has_sent_header THEN
    SendHeader(o, auth_data(d, now, rnd.cid, rnd.conn), buf,
               Min(Len(buf), rnd.randint + get_head_size(buf, 30)), rnd, fill)
  ELSE
    Only({ [o |-> r.o, d |-> d, ret |-> IF r.exc = "" THEN r.data ELSE << >>,
            exc |-> r.exc, hs |-> 0, pks |-> r.pks]
         : r \in {ClientUnits(o, buf, fill)} })

RECURSIVE ServerUnits(_, _, _)
\* the loop of server_pre_encrypt and the pack_server_data call after it
ServerUnits(o, buf, fill) ==
  IF Len(buf) > o.unit_len THEN
    IF o.unit_len <= 0 THEN
      [o |-> o, data |-> << >>, exc |-> "nontermination", pks |-> << >>]
    ELSE
      Only({ IF pk.exc # "" THEN
               [o |-> pk.o, data |-> << >>, exc |-> pk.exc, pks |-> << >>]
             ELSE
               Joined(pk.data,
                      Packet(pk.data, Slice(buf, 0, o.unit_len), FALSE),
                      ServerUnits(pk.o, Drop(buf, o.unit_len), fill))
           : pk \in {pack_server_data(o, Slice(buf, 0, o.unit_len), fill)} })
  ELSE
    Only({ LastUnit(pk, buf, FALSE) : pk \in {pack_server_data(o, buf, fill)} })

\* auth_akarin_rand.server_pre_encrypt; prefix is the number of bytes it put
\* before the plaintext
server_pre_encrypt(o, buf, fill) ==
  IF o.raw_trans THEN
    [o |-> o, ret |-> buf, exc |-> "", prefix |-> 0, pks |-> << >>]
  ELSE IF o.pack_id = One32 THEN
    Only({ [o |-> r.o, ret |-> IF r.exc = "" THEN r.data ELSE << >>,
            exc |-> r.exc, prefix |-> 2, pks |-> r.pks]
         : r \in {ServerUnits(
                    [o EXCEPT !.server_info.tcp_mss = Min(@, 1500),
                              !.unit_len = Min(o.server_info.tcp_mss, 1500)
                                           - o.client_over_head,
                              !.new_send_tcp_mss =
                                Min(o.server_info.tcp_mss, 1500)],
                    pack_H(Min(o.server_info.tcp_mss, 1500)) \o buf, fill)} })
  ELSE
    Only({ [o |-> r.o, ret |-> IF r.exc = "" THEN r.data ELSE << >>,
            exc |-> r.exc, prefix |-> 0, pks |-> r.pks]
         : r \in {ServerUnits(o, buf, fill)} })

(***************************************************************************)
(* The receiving handlers.  A handler that raises returns nothing: ret is  *)
(* empty and exc names the exception.  ev lists what became of each packet *)
(* looked at: "ok", "wait" (incomplete, left buffered), "oversize",        *)
(* "badcmd", "badmac", or the exception raised while parsing it.           *)
(***************************************************************************)
\* the session, nothing returned, the exception exc raised
Raised(o, exc, ev) ==
  [o |-> o, ret |-> << >>, sendback |-> FALSE, exc |-> exc, ev |-> ev]

\* a failure that leaves raw_trans and recv_buf alone
NotPoisoned(o) == o

\* self.raw_trans = True; self.recv_buf = b''
Poisoned(o) == [o EXCEPT !.raw_trans = TRUE, !.recv_buf = << >>]

RECURSIVE ClientFrames(_, _, _)
\* one round of the loop of client_post_decrypt from the decrypt call on:
\* out1 is out_buf and e the encryptor after it
ClientDecoded(o, out1, ev, length, e, server_hash) ==
  IF o.recv_id = One32 /\ Len(out1) < 2 THEN
    Raised([o EXCEPT !.encryptor = e, !.last_server_hash = server_hash],
           "struct.error", Append(ev, "struct.error"))
  ELSE IF o.recv_id = One32 THEN
    ClientFrames([o EXCEPT !.encryptor = e, !.last_server_hash = server_hash,
                           !.server_info.tcp_mss = unpack_H(Slice(out1, 0, 2)),
                           !.recv_tcp_mss = unpack_H(Slice(out1, 0, 2)),
                           !.send_back_cmd = Append(@, 65280),
                           !.recv_id = Add32(o.recv_id, One32),
                           !.recv_buf = Drop(o.recv_buf, length + 4)],
                 Drop(out1, 2), Append(ev, "ok"))
  ELSE
    ClientFrames([o EXCEPT !.encryptor = e, !.last_server_hash = server_hash,
                           !.recv_id = Add32(o.recv_id, One32),
                           !.recv_buf = Drop(o.recv_buf, length + 4)],
                 out1, Append(ev, "ok"))

\* one round of the loop of client_post_decrypt once rand_len is known
ClientSized(o, out_buf, ev, data_len, length) ==
  IF length >= 4096 THEN
    Raised(Poisoned(o), "Exception", Append(ev, "oversize"))
  ELSE IF length + 4 > Len(o.recv_buf) THEN
    [o |-> o, ret |-> out_buf, sendback |-> FALSE, exc |-> "",
     ev |-> Append(ev, "wait")]
  ELSE
    Only({ IF Slice(server_hash, 0, 2)
              # Slice(o.recv_buf, length + 2, length + 4) THEN
             Raised(Poisoned(o), "Exception", Append(ev, "badmac"))
           ELSE
             Only({ ClientDecoded(o, out_buf \o dec.out, ev, length, dec.e,
                                  server_hash)
                  : dec \in {decrypt(o.encryptor,
                                     Slice(o.recv_buf, 2, data_len + 2))} })
         : server_hash \in {hmac_md5(o.user_key \o o.recv_id,
                                     Slice(o.recv_buf, 0, length + 2))} })

\* data_len as client_post_decrypt reads it from the head of recv_buf
client_data_len(o) ==
  Xor16(unpack_H(Slice(o.recv_buf, 0, 2)),
        unpack_H(Slice(o.last_server_hash, 14, 16)))

\* the while loop of client_post_decrypt, out_buf being what is decoded so
\* far
ClientFrames(o, out_buf, ev) ==
  IF Len(o.recv_buf) <= 4 THEN
    [o |-> o, ret |-> out_buf, sendback |-> FALSE, exc |-> "", ev |-> ev]
  ELSE IF o.user_key = None THEN Raised(o, "TypeError", ev)
  ELSE
    Only({ Only({
      IF rl.exc THEN
        Raised([o EXCEPT !.random_server = rl.random], "ZeroDivisionError",
               Append(ev, "ZeroDivisionError"))
      ELSE
        ClientSized([o EXCEPT !.random_server = rl.random], out_buf, ev,
                    data_len, data_len + rl.val)
      : rl \in {recv_rnd_data_len(o, data_len, o.last_server_hash,
                                  o.random_server)} })
      : data_len \in {client_data_len(o)} })

\* auth_akarin_rand.client_post_decrypt
client_post_decrypt(o, buf) ==
  IF o.raw_trans THEN
    [o |-> o, ret |-> buf, sendback |-> FALSE, exc |-> "", ev |-> << >>]
  ELSE ClientFrames([o EXCEPT !.recv_buf = @ \o buf], << >>, << >>)

\* common.int32 of a difference of two 32-bit values, the difference given
\* modulo 2^32 as 4 bytes: its sign and magnitude as a signed 32-bit integer
int32(x) ==
  IF x[4] >= 128 THEN [neg |-> TRUE, mag |-> Neg32(x)]
  ELSE [neg |-> FALSE, mag |-> x]

\* the time check without its first half: time_dif > self.max_time_dif
TimeRejectedLate(o, utc_time, now) ==
  /\ ~int32(Sub32(utc_time, now)).neg
  /\ Lt32(pack_I(o.max_time_dif), int32(Sub32(utc_time, now)).mag)

\* time_dif < -self.max_time_dif or time_dif > self.max_time_dif, for
\* time_dif = common.int32(utc_time - (int(time.time()) & 0xffffffff))
TimeRejected(o, utc_time, now) ==
  Lt32(pack_I(o.max_time_dif), int32(Sub32(utc_time, now)).mag)

\* uid in self.server_info.users
KnownUser(si, uid) == uid \in DOMAIN si.users

\* return self.not_match_return(self.recv_buf) in the handshake, d being the
\* shared data by then
Reject(o, d) ==
  [o |-> not_match_return(o, o.recv_buf).o, d |-> d, status |-> "reject",
   ret |-> not_match_return(o, o.recv_buf).ret]

\* self.last_client_hash, self.user_id_num, self.user_id and self.user_key
\* as the handshake sets them for the user id uid
WithUser(o, md5data, uid) ==
  IF KnownUser(o.server_info, uid)
  THEN [o EXCEPT !.last_client_hash = md5data, !.user_id_num = uid,
                 !.user_id = uid, !.user_key = o.server_info.users[uid]]
  ELSE [o EXCEPT !.last_client_hash = md5data, !.user_id_num = Zero32,
                 !.user_key = IF DOMAIN o.server_info.users = {}
                              THEN o.server_info.key
                              ELSE o.server_info.recv_iv]

\* the handshake from the time check on, the guard being asked before the
\* time is tested
HandshakeTail_guard_first(o, d, now, head) ==
  Only({ IF TimeRejected(o, Slice(head, 0, 4), now) THEN Reject(o, ins.d)
         ELSE IF ~ins.ok THEN Reject(o, ins.d)
         ELSE
           [o |-> [o EXCEPT !.has_recv_header = TRUE,
                            !.client_id = Slice(head, 4, 8),
                            !.connection_id = unpack_I(Slice(head, 8, 12)),
                            !.encryptor =
                              decrypt(encrypt(
                                Encryptor(b64encode(o.user_key)
                                          \o b64encode(o.last_client_hash),
                                          "chacha20",
                                          Slice(o.last_server_hash, 0, 8)),
                                << >>).e,
                                Slice(o.last_client_hash, 0, 8)).e,
                            !.recv_buf = Drop(o.recv_buf, 36)],
            d |-> ins.d, status |-> "accept", ret |-> << >>]
       : ins \in {data_insert(d, o.user_id, Slice(head, 4, 8),
                              unpack_I(Slice(head, 8, 12)), now)} })

\* the handshake from the time check on, head being the decrypted
\* authentication data
HandshakeTail(o, d, now, head) ==
  IF TimeRejected(o, Slice(head, 0, 4), now) THEN Reject(o, d)
  ELSE
    Only({ IF ~ins.ok THEN Reject(o, ins.d)
           ELSE
             [o |-> [o EXCEPT !.has_recv_header = TRUE,
                              !.client_id = Slice(head, 4, 8),
                              !.connection_id = unpack_I(Slice(head, 8, 12)),
                              !.encryptor =
                                decrypt(encrypt(
                                  Encryptor(b64encode(o.user_key)
                                            \o b64encode(o.last_client_hash),
                                            "chacha20",
                                            Slice(o.last_server_hash, 0, 8)),
                                  << >>).e,
                                  Slice(o.last_client_hash, 0, 8)).e,
                              !.recv_buf = Drop(o.recv_buf, 36)],
              d |-> ins.d, status |-> "accept", ret |-> << >>]
         : ins \in {data_insert(d, o.user_id, Slice(head, 4, 8),
                                unpack_I(Slice(head, 8, 12)), now)} })

\* the handshake from the second HMAC on with the comparison of the user
\* digest left out
HandshakeAuth_unchecked(o, d, now) ==
  Only({ IF FALSE THEN Reject(o, d)
         ELSE
           Only({ HandshakeTail(
                    [o EXCEPT !.last_server_hash = md5auth,
                              !.client_over_head = unpack_H(Slice(head, 12, 14)),
                              !.recv_tcp_mss = unpack_H(Slice(head, 14, 16)),
                              !.send_tcp_mss = unpack_H(Slice(head, 14, 16))],
                    d, now, head)
                : head \in {decrypt(Encryptor(b64encode(o.user_key) \o salt,
                                              "aes-128-cbc", << >>),
                                    Rep(0, 16) \o Slice(o.recv_buf, 16, 32)
                                    \o <<0>>).out} })
       : md5auth \in {hmac_md5(o.user_key, Slice(o.recv_buf, 12, 32))} })

\* the handshake from the second HMAC on, the user being looked up
HandshakeAuth(o, d, now) ==
  Only({ IF Slice(md5auth, 0, 4) # Slice(o.recv_buf, 32, 36) THEN Reject(o, d)
         ELSE
           Only({ HandshakeTail(
                    [o EXCEPT !.last_server_hash = md5auth,
                              !.client_over_head = unpack_H(Slice(head, 12, 14)),
                              !.recv_tcp_mss = unpack_H(Slice(head, 14, 16)),
                              !.send_tcp_mss = unpack_H(Slice(head, 14, 16))],
                    d, now, head)
                : head \in {decrypt(Encryptor(b64encode(o.user_key) \o salt,
                                              "aes-128-cbc", << >>),
                                    Rep(0, 16) \o Slice(o.recv_buf, 16, 32)
                                    \o <<0>>).out} })
       : md5auth \in {hmac_md5(o.user_key, Slice(o.recv_buf, 12, 32))} })

\* the handshake part of server_post_decrypt (recv_buf already extended):
\* status is "reject" (return ret, sendback), "wait" (return b'', False) or
\* "accept" (go on to the packets)
ServerHandshake(o, d, now) ==
  Only({ IF (n >= 12 \/ n \in {7, 8})
            /\ Slice(md5data, 0, Min(n, 12) - 4)
               # Slice(o.recv_buf, 4, Min(n, 12)) THEN
           Reject(o, d)
         ELSE IF n < 12 + 24 THEN
           [o |-> o, d |-> d, status |-> "wait", ret |-> << >>]
         ELSE
           HandshakeAuth(WithUser(o, md5data,
                                  XorBytes(Slice(o.recv_buf, 12, 16),
                                           Slice(md5data, 8, 12))),
                         d, now)
       : n \in {Len(o.recv_buf)},
         md5data \in {hmac_md5(o.server_info.recv_iv \o o.server_info.key,
                               Slice(o.recv_buf, 0, 4))} })

\* data_len as server_post_decrypt first reads it from the head of recv_buf
server_data_len(o) ==
  Xor16(unpack_H(Slice(o.recv_buf, 0, 2)),
        unpack_H(Slice(o.last_client_hash, 14, 16)))

RECURSIVE CmdWords(_, _, _, _)
\* the inner while loop of server_post_decrypt over command words: the
\* session, the local recv_buf, data_len, cmd_len, and how the loop ended
CmdWords(o, recv_buf, data_len, cmd_len) ==
  IF data_len < 65280 THEN
    [o |-> o, recv_buf |-> recv_buf, data_len |-> data_len,
     cmd_len |-> cmd_len, end |-> "ok"]
  ELSE IF data_len = 65280 THEN
    IF Len(recv_buf) < 4 THEN
      [o |-> [o EXCEPT !.recv_tcp_mss = o.send_tcp_mss],
       recv_buf |-> Drop(recv_buf, 2), data_len |-> data_len,
       cmd_len |-> cmd_len + 2, end |-> "struct.error"]
    ELSE CmdWords([o EXCEPT !.recv_tcp_mss = o.send_tcp_mss],
                  Drop(recv_buf, 2),
                  Xor16(unpack_H(Slice(recv_buf, 2, 4)),
                        unpack_H(Slice(o.last_client_hash, 12, 14))),
                  cmd_len + 2)
  ELSE [o |-> o, recv_buf |-> recv_buf, data_len |-> data_len,
        cmd_len |-> cmd_len, end |-> "badcmd"]

\* a packet failure that raises whatever recv_id is
FrameFailureRaises(o, ev) == Raised(Poisoned(o), "Exception", ev)

\* self.raw_trans = True; self.recv_buf = b''; then b'E' * 2048 is returned
\* on the first packet and an Exception raised on a later one
FrameFailure(o, ev) ==
  IF o.recv_id = One32 THEN
    [o |-> Poisoned(o), ret |-> PoisonE, sendback |-> FALSE, exc |-> "",
     ev |-> ev]
  ELSE Raised(Poisoned(o), "Exception", ev)

RECURSIVE ServerFrames(_, _, _, _)
\* one round of the outer loop of server_post_decrypt once rand_len is
\* known; recv_buf is the local copy behind the command words
ServerSized(o, recv_buf, data_len, cmd_len, length, out_buf, sendback, ev) ==
  IF length >= 4096 THEN FrameFailure(o, Append(ev, "oversize"))
  ELSE IF length + 4 > Len(recv_buf) THEN
    [o |-> o, ret |-> out_buf, sendback |-> sendback, exc |-> "",
     ev |-> Append(ev, "wait")]
  ELSE
    Only({ IF Slice(client_hash, 0, 2)
              # Slice(o.recv_buf, length + cmd_len + 2, length + cmd_len + 4)
           THEN FrameFailure(o, Append(ev, "badmac"))
           ELSE
             Only({ ServerFrames(
                      [o EXCEPT !.recv_id = Add32(o.recv_id, One32),
                                !.encryptor = dec.e,
                                !.last_client_hash = client_hash,
                                !.recv_buf = Drop(recv_buf, length + 4)],
                      out_buf \o dec.out, sendback \/ data_len = 0,
                      Append(ev, "ok"))
                  : dec \in {decrypt(o.encryptor,
                                     Slice(recv_buf, 2, data_len + 2))} })
         : client_hash \in {hmac_md5(o.user_key \o o.recv_id,
                               Slice(o.recv_buf, 0, length + cmd_len + 2))} })

\* the outer while loop of server_post_decrypt
ServerFrames(o, out_buf, sendback, ev) ==
  IF Len(o.recv_buf) <= 4 THEN
    [o |-> o, ret |-> out_buf, sendback |-> sendback, exc |-> "", ev |-> ev]
  ELSE
    Only({
      IF cw.end = "struct.error" THEN
        Raised(cw.o, "struct.error", Append(ev, "struct.error"))
      ELSE IF cw.end = "badcmd" THEN FrameFailure(cw.o, Append(ev, "badcmd"))
      ELSE
        Only({
          IF rl.exc THEN
            Raised([cw.o EXCEPT !.random_client = rl.random],
                   "ZeroDivisionError", Append(ev, "ZeroDivisionError"))
          ELSE
            ServerSized([cw.o EXCEPT !.random_client = rl.random],
                        cw.recv_buf, cw.data_len, cw.cmd_len,
                        cw.data_len + rl.val, out_buf, sendback, ev)
          : rl \in {recv_rnd_data_len(cw.o, cw.data_len + cw.cmd_len,
                                      o.last_client_hash, o.random_client)} })
      : cw \in {CmdWords(o, o.recv_buf, server_data_len(o), 0)} })

\* the end of server_post_decrypt with sendback left False
ReturnedSilent(fr, d, now) ==
  [o |-> fr.o,
   d |-> IF fr.exc = "" /\ fr.ret # << >> /\ ~fr.o.raw_trans
         THEN data_update(d, fr.o.user_id, fr.o.client_id,
                          fr.o.connection_id, now)
         ELSE d,
   ret |-> fr.ret, sendback |-> FALSE, exc |-> fr.exc, ev |-> fr.ev]

\* the end of server_post_decrypt, fr being the result of the packet loop
\* and d the shared data by then
Returned(fr, d, now) ==
  [o |-> fr.o,
   d |-> IF fr.exc = "" /\ fr.ret # << >> /\ ~fr.o.raw_trans
         THEN data_update(d, fr.o.user_id, fr.o.client_id,
                          fr.o.connection_id, now)
         ELSE d,
   ret |-> fr.ret, sendback |-> fr.sendback, exc |-> fr.exc, ev |-> fr.ev]

\* auth_akarin_rand.server_post_decrypt on session o with the shared data d
\* at time now: the session and the data afterwards, the pair returned, and
\* the exception raised if any
server_post_decrypt(o, d, buf, now) ==
  IF o.raw_trans THEN
    [o |-> o, d |-> d, ret |-> buf, sendback |-> FALSE, exc |-> "",
     ev |-> << >>]
  ELSE IF ~o.has_recv_header THEN
    Only({ IF hs.status # "accept" THEN
             [o |-> hs.o, d |-> hs.d, ret |-> hs.ret, sendback |-> FALSE,
              exc |-> "", ev |-> << >>]
           ELSE Returned(ServerFrames(hs.o, << >>, TRUE, << >>), hs.d, now)
         : hs \in {ServerHandshake([o EXCEPT !.recv_buf = @ \o buf], d,
                                   now)} })
  ELSE
    Returned(ServerFrames([o EXCEPT !.recv_buf = @ \o buf], << >>, FALSE,
                          << >>), d, now)

\* auth_akarin_rand.dispose
dispose(o, d) == data_remove(d, o.user_id, o.client_id)

\* protocol_param.split('#')[0]
BeforeHash(param) ==
  IF \E i \in 1..Len(param) : param[i] = 35
  THEN SubSeq(param, 1,
              (CHOOSE i \in 1..Len(param) :
                 param[i] = 35 /\ \A j \in 1..(i - 1) : param[j] # 35) - 1)
  ELSE param

\* auth_akarin_rand.set_server_info: the data handle afterwards
set_server_info(d, server_info) ==
  set_max_client(d, IF IsNumeral(BeforeHash(server_info.protocol_param))
                    THEN ParseInt(BeforeHash(server_info.protocol_param), 0)
                    ELSE 64)

(***************************************************************************)
(* The configuration of the runs: one server, its users, and the values    *)
(* the random sources of the client return.                                *)
(***************************************************************************)
\* the user key 0x31 * 16, the server key 0x41 * 16 and the iv 0x42 * 16
UserKey == Rep(49, 16)

ServerKey == Rep(65, 16)

ServerIv == Rep(66, 16)

\* the user id 1
UserId == <<1, 0, 0, 0>>

\* ServerInfo of the client: protocol_param is b"1:" + UserKey
ClientInfo ==
  [key |-> ServerKey, iv |-> ServerIv, recv_iv |-> << >>, overhead |-> 4,
   tcp_mss |-> 1460, protocol_param |-> <<49, 58>> \o UserKey,
   users |-> << >>]

\* ServerInfo of the server
ServerInfo ==
  [key |-> ServerKey, iv |-> << >>, recv_iv |-> ServerIv, overhead |-> 4,
   tcp_mss |-> 1460, protocol_param |-> << >>,
   users |-> [u \in {UserId} |-> UserKey]]

\* the bytes rand_bytes pads with
Fill == 170

\* what the client's random sources return in its first call: randint(0, 31),
\* the local client id, the three low bytes of the connection id, the tcp_mss
\* announced, the four bytes opening the handshake and a user id
ClientRnd(randint) ==
  [randint |-> randint, cid |-> <<5, 6, 7, 8>>, conn |-> <<8, 0, 0, 0>>,
   mss |-> 400, check_head |-> <<1, 2, 3, 4>>, uid |-> <<9, 9, 9, 9>>]

\* the time the runs start at
StartTime == pack_I(1000000)

\* the plaintexts the client sends: nothing, one byte, and as many bytes as
\* fill a packet of the tcp_mss the client announces
ClientPlain == {<< >>, <<120>>, [i \in 1..396 |-> (i * 3) % 256]}

\* the plaintexts the server sends
ServerPlain == {<<7>>, [i \in 1..400 |-> (i * 5) % 256]}

\* the bound on the number of calls of the sending handlers, both sides
\* counted together
MaxCalls == 4

\* the bound on the number of handler calls made after one raised
MaxAfter == 1

\* the sizes of the pieces the network may deliver
ChunkSizes == {40}

(***************************************************************************)
(* State                                                                   *)
(***************************************************************************)
VARIABLES
  client,   \* the client session
  cdata,    \* the obfs_auth_akarin_data of the client
  server,   \* the server session the network delivers to
  sdata,    \* the obfs_auth_akarin_data shared by the server sessions
  c2s,      \* bytes emitted towards the server, not yet delivered
  s2c,      \* bytes the server emitted, not yet delivered to the client
  now,      \* int(time.time()) & 0xffffffff on the client (c) and on the
            \* server (s), 4 bytes little-endian each
  sent_c,   \* the plaintexts given to client_pre_encrypt, concatenated
  rcvd_s,   \* the plaintext server_post_decrypt returned, concatenated
  sent_s,   \* the plaintexts given to server_pre_encrypt, concatenated
  rcvd_c,   \* the plaintext client_post_decrypt returned, concatenated
  calls,    \* the numbers of client_pre_encrypt and server_pre_encrypt calls
  cmdlog,   \* for each packet the client emitted after it decoded the
            \* server's first packet, whether it carries the command prefix
  raised,   \* the first exception a receiving handler raised, per side,
            \* and the number of handler calls made after the first of all
  hit,      \* the packet a byte of which was altered in transit, if any
  guard,    \* earlier server sessions not yet disposed, the handshakes the
            \* server accepted, whether the bytes fed to the current
            \* session are a replay of one, and the number of clock steps
  last      \* the last handler call: its name, input, result and effect

vars ==
  <<client, cdata, server, sdata, c2s, s2c, now, sent_c, rcvd_s, sent_s,
    rcvd_c, calls, cmdlog, raised, hit, guard, last>>

\* the record of a handler call on a session that was o before and is o2 now
Call(op, o, o2, arg, ret, sendback, exc, ev) ==
  [op |-> op, arg |-> arg, ret |-> ret, sendback |-> sendback, exc |-> exc,
   ev |-> ev, raw_before |-> o.raw_trans, unchanged |-> (o2 = o),
   accepted |-> (~o.has_recv_header /\ o2.has_recv_header)]

NoCall ==
  [op |-> "", arg |-> << >>, ret |-> << >>, sendback |-> FALSE, exc |-> "",
   ev |-> << >>, raw_before |-> FALSE, unchanged |-> TRUE,
   accepted |-> FALSE]

\* a client session and a server session as constructed
NewClient == auth_akarin_rand("auth_akarin_rand", ClientInfo)

NewServer == auth_akarin_rand("auth_akarin_rand", ServerInfo)

\* the state after construction, with wire already sent towards the server
\* and the two clocks at time_c and time_s
InitWith(wire, time_c, time_s) ==
  /\ client = NewClient
  /\ cdata = set_server_info(obfs_auth_akarin_data, ClientInfo)
  /\ server = NewServer
  /\ sdata = set_server_info(obfs_auth_akarin_data, ServerInfo)
  /\ c2s = wire /\ s2c = << >>
  /\ now = [c |-> time_c, s |-> time_s]
  /\ sent_c = << >> /\ rcvd_s = << >> /\ sent_s = << >> /\ rcvd_c = << >>
  /\ calls = [c |-> 0, s |-> 0]
  /\ cmdlog = << >>
  /\ raised = [c |-> "", s |-> "", after |-> 0]
  /\ hit = [dir |-> "", kind |-> "", before |-> << >>, id |-> Zero32]
  /\ guard = [parked |-> << >>, seen |-> {}, replaying |-> FALSE, ticks |-> 0]
  /\ last = NoCall

Init == InitWith(<< >>, StartTime, StartTime)

(***************************************************************************)
(* Alteration of one byte of an emitted packet in transit                  *)
(***************************************************************************)
\* no alteration
NoAlt == [k |-> 0, pos |-> 0, x |-> 0]

RECURSIVE PacketStart(_, _)
\* the number of bytes of the packets before the k-th
PacketStart(pks, k) ==
  IF k <= 1 THEN 0 ELSE pks[k - 1].len + PacketStart(pks, k - 1)

RECURSIVE PlainBefore(_, _)
\* the number of plaintext bytes in the packets before the k-th
PlainBefore(pks, k) ==
  IF k <= 1 THEN 0 ELSE pks[k - 1].plain + PlainBefore(pks, k - 1)

\* the offset in its packet that alt names: from the start of the packet
\* when pos >= 0, from its end otherwise
AltOffset(pks, alt) ==
  IF alt.pos >= 0 THEN alt.pos ELSE pks[alt.k].len + alt.pos

\* whether alt names a byte of one of the packets
Applies(pks, alt) ==
  /\ alt.k \in 1..Len(pks)
  /\ AltOffset(pks, alt) \in 0..(pks[alt.k].len - 1)

\* the part of the packet the altered byte is in
AltKind(pks, alt) ==
  IF AltOffset(pks, alt) < (IF pks[alt.k].cmd THEN 4 ELSE 2) THEN "len"
  ELSE IF AltOffset(pks, alt) >= pks[alt.k].len - 2 THEN "tag"
  ELSE "body"

\* the bytes ret, which open with hs handshake bytes followed by the packets
\* pks, with the byte alt names xor-ed with alt.x
Altered(ret, hs, pks, alt) ==
  IF alt = NoAlt THEN ret
  ELSE [ret EXCEPT ![hs + PacketStart(pks, alt.k) + AltOffset(pks, alt) + 1]
                     = XorN(@, alt.x, 8)]

\* hit after a send in direction dir of buf by a sender whose pack_id was
\* pack_id, skip bytes being put before the plaintext: the part of the
\* packet altered, the plaintext sent in the packets before it, and its
\* pack_id
Hit(dir, sent, buf, skip, pks, alt, pack_id) ==
  IF alt = NoAlt THEN hit
  ELSE [dir |-> dir, kind |-> AltKind(pks, alt),
        before |-> sent \o Slice(buf, 0, Max(0, PlainBefore(pks, alt.k)
                                                - skip)),
        id |-> Add32(pack_id, pack_I(alt.k - 1))]

(***************************************************************************)
(* Actions: one per handler call                                           *)
(***************************************************************************)
\* the pieces of wire the network may deliver next to a receiver whose
\* buffer is recv_buf: all of it, or its first bytes when the receiver holds
\* no earlier piece
Pieces(wire, recv_buf) ==
  {Len(wire)} \cup {k \in ChunkSizes : k < Len(wire) /\ Len(recv_buf) = 0}

\* whether one more handler call is made: the connection is closed soon
\* after a handler raised
Open == raised.after < MaxAfter

\* raised after a receiving handler of side ended with exc, and after a
\* sending handler when side is ""
Note(side, exc) ==
  [c |-> IF side = "c" /\ raised.c = "" THEN exc ELSE raised.c,
   s |-> IF side = "s" /\ raised.s = "" THEN exc ELSE raised.s,
   after |-> IF raised.c # "" \/ raised.s # "" THEN raised.after + 1
             ELSE raised.after]

\* the application calls client_pre_encrypt(buf); alt is altered in transit
ClientSend(buf, randint, alt) ==
  /\ Open
  /\ calls.c + calls.s < MaxCalls
  /\ alt = NoAlt \/ hit.dir = ""
  /\ \E r \in {client_pre_encrypt(client, cdata, buf, now.c,
                                  ClientRnd(randint), Fill)} :
        /\ alt = NoAlt \/ Applies(r.pks, alt)
        /\ client' = r.o
        /\ cdata' = r.d
        /\ c2s' = c2s \o Altered(r.ret, r.hs, r.pks, alt)
        /\ sent_c' = IF r.exc = "" THEN sent_c \o buf ELSE sent_c
        /\ cmdlog' = IF client.recv_id # One32
                     THEN cmdlog \o [i \in 1..Len(r.pks) |-> r.pks[i].cmd]
                     ELSE cmdlog
        /\ hit' = Hit("c2s", sent_c, buf, 0, r.pks, alt, client.pack_id)
        /\ last' = Call("client_pre_encrypt", client, r.o, buf, r.ret, FALSE,
                        r.exc, << >>)
  /\ calls' = [calls EXCEPT !.c = @ + 1]
  /\ raised' = Note("", "")
  /\ UNCHANGED <<server, sdata, s2c, now, rcvd_s, sent_s, rcvd_c, guard>>

\* the network delivers the next n bytes to server_post_decrypt
ServerRecv(n) ==
  /\ Open
  /\ n > 0
  /\ \E buf \in {Slice(c2s, 0, n)} :
     \E r \in {server_post_decrypt(server, sdata, buf, now.s)} :
        /\ server' = r.o
        /\ sdata' = r.d
        /\ c2s' = Drop(c2s, n)
        /\ rcvd_s' = IF r.exc = "" /\ ~r.o.raw_trans THEN rcvd_s \o r.ret
                     ELSE rcvd_s
        /\ raised' = Note("s", r.exc)
        /\ guard' = IF ~server.has_recv_header /\ r.o.has_recv_header
                    THEN [guard EXCEPT !.seen =
                            @ \cup {Slice(server.recv_buf \o buf, 0, 36)}]
                    ELSE guard
        /\ last' = Call("server_post_decrypt", server, r.o, buf, r.ret,
                        r.sendback, r.exc, r.ev)
  /\ UNCHANGED <<client, cdata, s2c, now, sent_c, sent_s, rcvd_c, calls,
                 cmdlog, hit>>

\* the application calls server_pre_encrypt(buf), which it does once the
\* handshake is accepted; alt is altered in transit
ServerSend(buf, alt) ==
  /\ Open
  /\ calls.c + calls.s < MaxCalls
  /\ server.has_recv_header \/ server.raw_trans
  /\ alt = NoAlt \/ hit.dir = ""
  /\ \E r \in {server_pre_encrypt(server, buf, Fill)} :
        /\ alt = NoAlt \/ Applies(r.pks, alt)
        /\ server' = r.o
        /\ s2c' = s2c \o Altered(r.ret, 0, r.pks, alt)
        /\ sent_s' = IF r.exc = "" THEN sent_s \o buf ELSE sent_s
        /\ hit' = Hit("s2c", sent_s, buf, r.prefix, r.pks, alt, server.pack_id)
        /\ last' = Call("server_pre_encrypt", server, r.o, buf, r.ret, FALSE,
                        r.exc, << >>)
  /\ calls' = [calls EXCEPT !.s = @ + 1]
  /\ raised' = Note("", "")
  /\ UNCHANGED <<client, cdata, sdata, c2s, now, sent_c, rcvd_s, rcvd_c,
                 cmdlog, guard>>

\* the network delivers the next n bytes to client_post_decrypt
ClientRecv(n) ==
  /\ Open
  /\ n > 0
  /\ \E buf \in {Slice(s2c, 0, n)} :
     \E r \in {client_post_decrypt(client, buf)} :
        /\ client' = r.o
        /\ s2c' = Drop(s2c, n)
        /\ rcvd_c' = IF r.exc = "" /\ ~r.o.raw_trans THEN rcvd_c \o r.ret
                     ELSE rcvd_c
        /\ raised' = Note("c", r.exc)
        /\ last' = Call("client_post_decrypt", client, r.o, buf, r.ret,
                        FALSE, r.exc, r.ev)
  /\ UNCHANGED <<cdata, server, sdata, c2s, now, sent_c, rcvd_s, sent_s,
                 calls, cmdlog, hit, guard>>

\* honest traffic in both directions
Next ==
  \/ \E buf \in ClientPlain :
       \E randint \in IF client.has_sent_header THEN {0} ELSE {0, 31} :
         ClientSend(buf, randint, NoAlt)
  \/ \E n \in Pieces(c2s, server.recv_buf) : ServerRecv(n)
  \/ \E buf \in ServerPlain : ServerSend(buf, NoAlt)
  \/ \E n \in Pieces(s2c, client.recv_buf) : ClientRecv(n)

Spec == Init /\ [][Next]_vars

(***************************************************************************)
(* Traffic of which one byte is altered in transit                         *)
(***************************************************************************)
\* the plaintexts sent when a byte is altered
CorruptClientPlain == {<<120>>}

CorruptServerPlain == {[i \in 1..400 |-> (i * 5) % 256]}

\* the bytes altered: the two bytes of the length word, the byte after it and
\* the last byte of the tag, each xor-ed with x
AltBytes ==
  {[pos |-> 0, x |-> 1], [pos |-> 1, x |-> 16], [pos |-> 2, x |-> 1],
   [pos |-> 0 - 1, x |-> 1]}

\* the alterations: a byte of the first or of the second packet of a call
Alts == {[k |-> k, pos |-> b.pos, x |-> b.x] : k \in 1..2, b \in AltBytes}

NextCorrupt ==
  \/ \E buf \in CorruptClientPlain : \E alt \in Alts \cup {NoAlt} :
       ClientSend(buf, 0, alt)
  \/ \E n \in Pieces(c2s, server.recv_buf) : ServerRecv(n)
  \/ \E buf \in CorruptServerPlain : \E alt \in Alts \cup {NoAlt} :
       ServerSend(buf, alt)
  \/ \E n \in Pieces(s2c, client.recv_buf) : ClientRecv(n)

SpecCorrupt == Init /\ [][NextCorrupt]_vars

(***************************************************************************)
(* Several connections to one server: sessions come and go, the shared     *)
(* obfs_auth_akarin_data stays, and handshakes seen on the wire are sent   *)
(* again.                                                                  *)
(***************************************************************************)
\* the bound on the number of server sessions not yet disposed
MaxParked == 2

\* the bound on the number of clock steps
MaxTicks == 1

\* the clock steps in seconds: longer than the 600 seconds a queue stays
\* active, far shorter than max_time_dif
TickSteps == {601}

\* the connection is closed and a new one opened: a new client session and a
\* new server session, the old server session not yet disposed
Reconnect ==
  /\ Len(guard.parked) < MaxParked
  /\ client.has_sent_header
  /\ c2s = << >>
  /\ client' = NewClient
  /\ server' = NewServer
  /\ s2c' = << >>
  /\ guard' = [guard EXCEPT !.parked = Append(@, server),
                            !.replaying = FALSE]
  /\ raised' = [c |-> "", s |-> "", after |-> 0]
  /\ last' = NoCall
  /\ UNCHANGED <<cdata, sdata, c2s, now, sent_c, rcvd_s, sent_s, rcvd_c,
                 calls, cmdlog, hit>>

\* the framework calls dispose() on the i-th closed server session
Dispose(i) ==
  /\ sdata' = dispose(guard.parked[i], sdata)
  /\ guard' = [guard EXCEPT !.parked = Without(@, i)]
  /\ UNCHANGED <<client, cdata, server, c2s, s2c, now, sent_c, rcvd_s,
                 sent_s, rcvd_c, calls, cmdlog, raised, hit, last>>

\* somebody opens a connection and sends handshake bytes h seen earlier
Replay(h) ==
  /\ server = NewServer
  /\ c2s = << >>
  /\ ~client.has_sent_header
  /\ ~guard.replaying
  /\ c2s' = h
  /\ guard' = [guard EXCEPT !.replaying = TRUE]
  /\ UNCHANGED <<client, cdata, server, sdata, s2c, now, sent_c, rcvd_s,
                 sent_s, rcvd_c, calls, cmdlog, raised, hit, last>>

\* dt seconds pass on both clocks
Tick(dt) ==
  /\ guard.ticks < MaxTicks
  /\ now' = [c |-> Add32(now.c, pack_I(dt)), s |-> Add32(now.s, pack_I(dt))]
  /\ guard' = [guard EXCEPT !.ticks = @ + 1]
  /\ UNCHANGED <<client, cdata, server, sdata, c2s, s2c, sent_c, rcvd_s,
                 sent_s, rcvd_c, calls, cmdlog, raised, hit, last>>

NextReplay ==
  \/ /\ ~client.has_sent_header
     /\ ~guard.replaying
     /\ ClientSend(<< >>, 0, NoAlt)
  \/ \E n \in Pieces(c2s, server.recv_buf) : ServerRecv(n)
  \/ Reconnect
  \/ \E i \in 1..Len(guard.parked) : Dispose(i)
  \/ \E h \in guard.seen : Replay(h)
  \/ \E dt \in TickSteps : Tick(dt)

SpecReplay == Init /\ [][NextReplay]_vars

(***************************************************************************)
(* A fresh server session fed bytes that do not open with a handshake      *)
(* prefix, in pieces of any size                                           *)
(***************************************************************************)
\* the length of the streams fed
ProbeLen == 40

\* four bytes followed by the first eight bytes of their keyed digest: the
\* first twelve bytes of a handshake
ProbeHead(check_head) ==
  check_head
  \o Slice(hmac_md5(ServerInfo.recv_iv \o ServerInfo.key, check_head), 0, 8)

\* the streams fed: zeros, and a handshake prefix with one of its bytes
\* 4 .. 11 altered, followed by zeros
ProbeStreams ==
  {Rep(0, ProbeLen)}
  \cup {[ProbeHead(<<1, 2, 3, 4>>) \o Rep(0, ProbeLen - 12)
           EXCEPT ![i] = XorN(@, 1, 8)] : i \in {5, 7, 9, 12}}

\* the sizes of the pieces
ProbeSizes == {1, 3, 4, 7, 8, 12, 40}

InitProbe == \E wire \in ProbeStreams : InitWith(wire, StartTime, StartTime)

NextProbe == \E n \in ProbeSizes : n <= Len(c2s) /\ ServerRecv(n)

SpecProbe == InitProbe /\ [][NextProbe]_vars

(***************************************************************************)
(* One handshake, for clocks of the client and of the server anywhere in   *)
(* the 32-bit range                                                        *)
(***************************************************************************)
\* int(time.time()) & 0xffffffff: 0, 100, 86400, 86501, 2^31, 2^32 - 1
TimeValues ==
  {<<0, 0, 0, 0>>, <<100, 0, 0, 0>>, pack_I(86400), pack_I(86501),
   <<0, 0, 0, 128>>, <<255, 255, 255, 255>>}

InitTime == \E tc \in TimeValues : \E ts \in TimeValues : InitWith(<< >>, tc, ts)

NextTime ==
  \/ ~client.has_sent_header /\ ClientSend(<< >>, 0, NoAlt)
  \/ \E n \in Pieces(c2s, server.recv_buf) : ServerRecv(n)

SpecTime == InitTime /\ [][NextTime]_vars

(***************************************************************************)
(* Properties                                                              *)
(***************************************************************************)
\* whether byte string a begins byte string b
IsPrefix(a, b) == Len(a) <= Len(b) /\ SubSeq(b, 1, Len(a)) = a

\* C1: client-to-server round trip.  Whatever the interleaving with the
\* traffic in the other direction, the server never sets raw_trans, never
\* fails, returns only the plaintext the client was given, in order, and has
\* returned all of it once every emitted byte is delivered.
C1_ClientToServerRoundTrip ==
  /\ ~server.raw_trans
  /\ raised.s = ""
  /\ IsPrefix(rcvd_s, sent_c)
  /\ (c2s = << >> => rcvd_s = sent_c)

\* C2: server-to-client round trip.  After an accepted handshake the client
\* never sets raw_trans, never raises, returns only the plaintext the server
\* was given, in order (the MSS prefix discarded), and has returned all of
\* it once every emitted byte is delivered.
C2_ServerToClientRoundTrip ==
  /\ ~client.raw_trans
  /\ raised.c = ""
  /\ IsPrefix(rcvd_c, sent_s)
  /\ (s2c = << >> => rcvd_c = sent_s)

\* C8: raw_trans is sticky and makes the layer a pass-through.  A handler
\* called on a session whose raw_trans is set returns its input unchanged,
\* raises nothing and leaves the whole session, raw_trans included, as it
\* was.
C8_RawTransPassThrough ==
  last.raw_before => (last.exc = "" /\ last.ret = last.arg /\ last.unchanged)

\* C9: the MSS command is sent once.  Of the packets the client emits after
\* it decoded the server's first packet, the first carries the command
\* prefix and no later one does.
C9_CommandSentOnce ==
  Len(cmdlog) > 0 =>
    (cmdlog[1] /\ \A i \in 2..Len(cmdlog) : ~cmdlog[i])

\* whether the last handler call ended its packet loop on the check
\* length >= 4096
Oversize == Len(last.ev) > 0 /\ last.ev[Len(last.ev)] = "oversize"

\* C3: handshake replay is refused.  When handshake bytes a server session
\* accepted are fed again as the first bytes of a later session sharing the
\* replay-guard data, whatever reconnections, dispose calls and clock steps
\* came between, server_post_decrypt returns the 2048 'E' bytes with sendback
\* false, sets raw_trans and does not set has_recv_header.
C3_ReplayRefused ==
  (guard.replaying /\ c2s = << >> /\ last.op = "server_post_decrypt") =>
    /\ server.raw_trans
    /\ ~server.has_recv_header
    /\ last.ret = PoisonE
    /\ ~last.sendback

\* the receiver o of direction dir has verified the tag of the altered packet
TagPassed(o) == Lt32(hit.id, o.recv_id)

\* the claim of C4 as stated, for the receiver o of direction dir, wire being
\* the bytes not yet delivered and rcvd the plaintext returned
DetectedAlways(dir, wire, o, rcvd) ==
  hit.dir = dir =>
    /\ IsPrefix(rcvd, hit.before)
    /\ (wire = << >> => o.raw_trans)

DetectedOrPending(dir, wire, o, rcvd, exc) ==
  (hit.dir = dir /\ ~TagPassed(o)) =>
    /\ IsPrefix(rcvd, hit.before)
    /\ (wire = << >> =>
          \/ o.raw_trans
          \/ exc # ""
          \/ hit.kind = "len" /\ Len(o.recv_buf) > 4)

C5_UnknownPrefixNeverThrows ==
  /\ raised.s = ""
  /\ last.exc = ""
  /\ ~server.has_recv_header
  /\ (ProbeLen - Len(c2s) >= 12 => server.raw_trans)
  /\ (last.op = "server_post_decrypt" /\ ~last.raw_before) =>
       /\ ~last.sendback
       /\ last.ret = IF server.raw_trans THEN PoisonE ELSE << >>

\* a prefix that arrived in pieces shorter than twelve bytes was answered
\* with the 'E' bytes
C5_Witness ==
  /\ last.op = "server_post_decrypt"
  /\ ~last.raw_before
  /\ server.raw_trans
  /\ last.ret = PoisonE
  /\ Len(last.arg) < 12
  /\ ProbeLen - Len(c2s) >= 12

\* |a - b| > 86400 for the unsigned 32-bit values a and b
AbsFar(a, b) ==
  \/ Lt32(b, a) /\ Lt32(pack_I(86400), Sub32(a, b))
  \/ Lt32(a, b) /\ Lt32(pack_I(86400), Sub32(b, a))

\* (a - b) mod 2^32, read as a signed 32-bit value, is outside
\* -86400 .. 86400
WrapFar(a, b) ==
  /\ Lt32(pack_I(86400), Sub32(a, b))
  /\ Lt32(pack_I(86400), Sub32(b, a))

C7_FramingCeiling ==
  Oversize =>
    IF last.op = "server_post_decrypt" THEN
      /\ server.raw_trans
      /\ server.recv_buf = << >>
      /\ IF server.recv_id = One32
         THEN last.exc = "" /\ last.ret = PoisonE /\ ~last.sendback
         ELSE last.exc = "Exception"
    ELSE
      /\ client.raw_trans
      /\ client.recv_buf = << >>
      /\ last.exc = "Exception"

\* the server met the ceiling on its first packet and answered with the 'E'
\* bytes
C7_Witness ==
  /\ Oversize
  /\ last.op = "server_post_decrypt"
  /\ server.recv_id = One32
  /\ last.ret = PoisonE

HelloClients == {Zero32, <<5, 6, 7, 8>>}

\* the low bytes of the connection id rand_bytes(4) gives them
HelloConns == {<<8, 0, 0, 0>>}

\* a new client process with local client id cid calls
\* client_pre_encrypt(b'') on a new connection
Hello(cid, conn) ==
  /\ ~client.has_sent_header
  /\ c2s = << >>
  /\ \E r \in {client_pre_encrypt(
                 client, set_server_info(obfs_auth_akarin_data, ClientInfo),
                 << >>, now.c,
                 [ClientRnd(0) EXCEPT !.cid = cid, !.conn = conn], Fill)} :
        /\ client' = r.o
        /\ cdata' = r.d
        /\ c2s' = r.ret
        /\ last' = Call("client_pre_encrypt", client, r.o, << >>, r.ret,
                        FALSE, r.exc, << >>)
  /\ UNCHANGED <<server, sdata, s2c, now, sent_c, rcvd_s, sent_s, rcvd_c,
                 calls, cmdlog, raised, hit, guard>>

NextDispose ==
  \/ \E cid \in HelloClients : \E conn \in HelloConns : Hello(cid, conn)
  \/ c2s # << >> /\ ServerRecv(Len(c2s))
  \/ Reconnect
  \/ \E i \in 1..Len(guard.parked) : Dispose(i)

SpecDispose == Init /\ [][NextDispose]_vars

\* the ref-count of the client queue of user u and client c in the data d
RefOf(d, u, c) ==
  IF u \in DOMAIN d.user_id /\ lru_contains(d.user_id[u], c)
  THEN lru_value(d.user_id[u], c).ref ELSE 0

\* what dispose of session s may do to the data d, d2 being the data
\* afterwards: one reference less on the queue that accepted s, if any, and
\* no other ref-count changed
DisposeEffect(s, d, d2) ==
  \A u \in DOMAIN d.user_id :
    \A k \in 1..Len(d.user_id[u].order) :
      RefOf(d2, u, d.user_id[u].order[k])
        = IF s.has_recv_header /\ u = s.user_id
             /\ d.user_id[u].order[k] = s.client_id
          THEN RefOf(d, u, d.user_id[u].order[k]) - 1
          ELSE RefOf(d, u, d.user_id[u].order[k])

\* C11: dispose of a server session whose handshake was accepted decrements
\* by one the ref-count of the client queue that accepted it, and dispose of
\* any session, also one that was refused or never authenticated, changes
\* the ref-count of no other queue
C11_DisposeOwnReference ==
  [][\A i \in 1..Len(guard.parked) :
       (Len(guard'.parked) < Len(guard.parked)
        /\ guard'.parked = Without(guard.parked, i))
       => DisposeEffect(guard.parked[i], sdata, sdata')]_vars

(***************************************************************************)
(* The replay guard called directly: insert, update and remove on the      *)
(* shared obfs_auth_akarin_data for one user, with the clock moving.       *)
(***************************************************************************)
\* the state after construction with l for the record of the last call
InitLast(l) ==
  /\ client = NewClient
  /\ cdata = set_server_info(obfs_auth_akarin_data, ClientInfo)
  /\ server = NewServer
  /\ sdata = set_server_info(obfs_auth_akarin_data, ServerInfo)
  /\ c2s = << >> /\ s2c = << >>
  /\ now = [c |-> StartTime, s |-> StartTime]
  /\ sent_c = << >> /\ rcvd_s = << >> /\ sent_s = << >> /\ rcvd_c = << >>
  /\ calls = [c |-> 0, s |-> 0]
  /\ cmdlog = << >>
  /\ raised = [c |-> "", s |-> "", after |-> 0]
  /\ hit = [dir |-> "", kind |-> "", before |-> << >>, id |-> Zero32]
  /\ guard = [parked |-> << >>, seen |-> {}, replaying |-> FALSE, ticks |-> 0]
  /\ last = l

\* the client ids the guard is called for
GuardClients == {Zero32, <<5, 6, 7, 8>>}

\* the connection ids the guard is called with: 20521 is beyond
\* front + 0x4000 of every window the other three open
GuardConns == {36, 100, 4200, 20521}

\* the bound on the number of calls of the guard
MaxOps == 4

\* the queue of client c in the table of user UserId
QueueOf(d, c) == lru_value(user_table(d, UserId), c)

\* whether the table of user UserId holds a queue for client c
HasQueue(d, c) == lru_contains(user_table(d, UserId), c)

\* the queue client_queue.insert is called on by
\* obfs_auth_akarin_data.insert: the one stored, or the one made for conn
QueueBefore(d, c, conn, t) ==
  IF HasQueue(d, c) THEN QueueOf(d, c) ELSE client_queue(conn, t)

\* a queue no session refers to, or not updated for ten minutes
Idle(q, t) == q.ref = 0 \/ ~Lt32(Sub32(t, q.last_update), pack_I(600))

\* the record of a call of the guard for client c: q and q2 are the queue
\* before and after, reset tells whether the call started a new window,
\* prior is the set of ids accepted in the window before the call and epoch
\* the set of ids accepted in the current window of each client
GuardCall(op, c, conn, ok, t, q, q2, reset) ==
  [op |-> op, client |-> c, arg |-> conn, ret |-> ok, now |-> t, q |-> q,
   q2 |-> q2, reset |-> reset,
   prior |-> IF reset THEN {} ELSE last.epoch[c],
   epoch |-> [last.epoch EXCEPT ![c] =
                (IF reset THEN {} ELSE @) \cup (IF ok THEN {conn} ELSE {})],
   step |-> last.step + 1]

NoGuardCall ==
  [op |-> "", client |-> << >>, arg |-> 0, ret |-> FALSE, now |-> StartTime,
   q |-> client_queue(64, StartTime), q2 |-> client_queue(64, StartTime),
   reset |-> FALSE, prior |-> {}, epoch |-> [c \in GuardClients |-> {}],
   step |-> 0]

InitGuard == InitLast(NoGuardCall)

\* a handshake of client c with connection id conn reaches
\* obfs_auth_akarin_data.insert
GuardInsert(c, conn) ==
  /\ last.step < MaxOps
  /\ \E r \in {data_insert(sdata, UserId, c, conn, now.s)} :
        /\ sdata' = r.d
        /\ last' = GuardCall("insert", c, conn, r.ok, now.s,
                             QueueBefore(sdata, c, conn, now.s),
                             QueueOf(r.d, c),
                             Idle(QueueBefore(sdata, c, conn, now.s), now.s))
  /\ UNCHANGED <<client, cdata, server, c2s, s2c, now, sent_c, rcvd_s,
                 sent_s, rcvd_c, calls, cmdlog, raised, hit, guard>>

\* a session of client c returned data: obfs_auth_akarin_data.update
GuardUpdate(c) ==
  /\ last.step < MaxOps
  /\ HasQueue(sdata, c)
  /\ \E d \in {data_update(sdata, UserId, c, 0, now.s)} :
        /\ sdata' = d
        /\ last' = GuardCall("update", c, 0, FALSE, now.s, QueueOf(sdata, c),
                             QueueOf(d, c), FALSE)
  /\ UNCHANGED <<client, cdata, server, c2s, s2c, now, sent_c, rcvd_s,
                 sent_s, rcvd_c, calls, cmdlog, raised, hit, guard>>

\* a session of client c is disposed: obfs_auth_akarin_data.remove
GuardRemove(c) ==
  /\ last.step < MaxOps
  /\ HasQueue(sdata, c)
  /\ \E d \in {data_remove(sdata, UserId, c)} :
        /\ sdata' = d
        /\ last' = GuardCall("remove", c, 0, FALSE, now.s, QueueOf(sdata, c),
                             QueueOf(d, c), FALSE)
  /\ UNCHANGED <<client, cdata, server, c2s, s2c, now, sent_c, rcvd_s,
                 sent_s, rcvd_c, calls, cmdlog, raised, hit, guard>>

NextGuard ==
  \/ \E c \in GuardClients : \E conn \in GuardConns : GuardInsert(c, conn)
  \/ \E c \in GuardClients : GuardUpdate(c)
  \/ \E c \in GuardClients : GuardRemove(c)
  \/ \E dt \in TickSteps : Tick(dt)

SpecGuard == InitGuard /\ [][NextGuard]_vars

\* the window insert tests conn against: the queue's own, or the one the
\* reset of an inactive queue gives
WindowFor(q, conn, t) ==
  IF Idle(q, t)
  THEN [front |-> conn - 64, back |-> conn + 1, alloc |-> {}]
  ELSE [front |-> q.front, back |-> q.back, alloc |-> q.alloc]

\* the three reasons to refuse conn in window w
Refused(w, conn) ==
  conn < w.front \/ conn > w.front + 16384 \/ conn \in w.alloc

\* what insert(conn) at time t returned (ok) and made of queue q (q2).  An
\* id accepted is recorded: it is in alloc, or front has moved past it
InsertContract(q, q2, conn, ok, t) ==
  /\ ok = ~Refused(WindowFor(q, conn, t), conn)
  /\ ok => /\ conn \in q2.alloc \/ conn < q2.front
           /\ q2.back = Max(WindowFor(q, conn, t).back, conn + 1)
           /\ q2.ref = q.ref + 1

\* C12: client_queue.insert(conn_id) on an enabled queue returns false
\* exactly when, after the reset applied to an inactive queue, conn_id is
\* below front, above front + 0x4000 or in alloc; otherwise it returns true,
\* records conn_id, sets back to max(back, conn_id + 1) and adds one to the
\* ref-count
C12_InsertContract ==
  (last.op = "insert" /\ last.q.enable)
  => InsertContract(last.q, last.q2, last.arg, last.ret, last.now)

\* an insert refused for an id beyond front + 0x4000 of a window in use
C12_Witness ==
  /\ last.op = "insert"
  /\ ~last.reset
  /\ last.arg > last.q.front + 16384
  /\ ~last.ret
  /\ last.q2.ref = last.q.ref

\* C18: between two consecutive resets of a client queue (its creation or a
\* re_enable) insert returns true at most once for any connection id,
\* whatever inserts and delrefs are made
C18_NoIdAcceptedTwice ==
  (last.op = "insert" /\ last.ret) => last.arg \notin last.prior

\* an id accepted earlier in the window, no longer in alloc because front
\* moved past it, is inserted again and refused
C18_Witness ==
  /\ last.op = "insert"
  /\ last.arg \in last.prior
  /\ last.arg \notin last.q.alloc
  /\ ~last.ret

\* front <= back and every id of alloc in [front, back)
WellFormed(q) ==
  /\ q.front <= q.back
  /\ \A id \in q.alloc : q.front <= id /\ id < q.back

\* C19: in every reachable state of every client queue front <= back and
\* every id recorded in alloc lies in [front, back)
C19_WindowWellFormed ==
  \A u \in DOMAIN sdata.user_id :
    \A k \in 1..Len(sdata.user_id[u].store) :
      WellFormed(sdata.user_id[u].store[k])

\* a queue whose window has slid: it holds an id and is 0x1000 wide
C19_Witness ==
  \E c \in GuardClients :
    /\ HasQueue(sdata, c)
    /\ QueueOf(sdata, c).alloc # {}
    /\ QueueOf(sdata, c).back - QueueOf(sdata, c).front = 4096

\* C20: after every successful insert front is not in alloc,
\* back - front <= 0x1000 and every id the window slid past is gone from
\* alloc; front never decreases except through a reset
C20_FrontAdvances ==
  /\ (last.op = "insert" /\ last.ret)
     => /\ last.q2.front \notin last.q2.alloc
        /\ last.q2.back - last.q2.front <= 4096
        /\ \A id \in last.q.alloc \cup {last.arg} :
             id < last.q2.front => id \notin last.q2.alloc
  /\ (last.op # "" /\ ~last.reset) => last.q2.front >= last.q.front

\* an insert that made the window slide past an id it held
C20_Witness ==
  /\ last.op = "insert"
  /\ last.ret
  /\ ~last.reset
  /\ last.q2.back - last.q2.front = 4096
  /\ \E id \in last.q.alloc : id < last.q2.front /\ id \notin last.q2.alloc

(***************************************************************************)
(* The replay-guard scenario: a fixed sequence of connection ids inserted  *)
(* for each client on a fresh guard, little time passing.                  *)
(***************************************************************************)
\* the connection ids inserted, in order: 100, 100, 35, 0x4101, 101 .. 164
\* and 36
GuardScript == <<100, 100, 35, 16641>> \o [i \in 1..64 |-> 100 + i] \o <<36>>

\* the clock steps in seconds: the queue stays active
ShortSteps == {60}

\* pos is the number of ids of the scenario inserted so far for each client
NoScriptCall ==
  [op |-> "", client |-> << >>, arg |-> 0, ret |-> FALSE, front |-> 0,
   pos |-> [c \in GuardClients |-> 0]]

InitScript == InitLast(NoScriptCall)

\* the next id of the scenario is inserted for client c
ScriptInsert(c) ==
  /\ last.pos[c] < Len(GuardScript)
  /\ \E r \in {data_insert(sdata, UserId, c, GuardScript[last.pos[c] + 1],
                           now.s)} :
        /\ sdata' = r.d
        /\ last' = [op |-> "insert", client |-> c,
                    arg |-> GuardScript[last.pos[c] + 1], ret |-> r.ok,
                    front |-> QueueOf(r.d, c).front,
                    pos |-> [last.pos EXCEPT ![c] = @ + 1]]
  /\ UNCHANGED <<client, cdata, server, c2s, s2c, now, sent_c, rcvd_s,
                 sent_s, rcvd_c, calls, cmdlog, raised, hit, guard>>

NextScript ==
  \/ \E c \in GuardClients : ScriptInsert(c)
  \/ \E dt \in ShortSteps : Tick(dt)

SpecScript == InitScript /\ [][NextScript]_vars

\* the results of the scenario up to the last insert, which returns final
ScriptResults(final) ==
  <<TRUE, FALSE, FALSE, FALSE>> \o [i \in 1..64 |-> TRUE] \o <<final>>

\* C13: on a fresh guard, the queue staying active, insert(U, C, 100)
\* succeeds, insert(U, C, 100) again fails, insert(U, C, 35) fails,
\* insert(U, C, 0x4101) fails, each of insert(U, C, 101) .. insert(U, C, 164)
\* succeeds, and a following insert(U, C, 36) fails
C13_ReplayScenario ==
  last.op = "insert"
  => last.ret = ScriptResults(FALSE)[last.pos[last.client]]

\* C13 as amended: the same, but the final insert(U, C, 36) succeeds, 36
\* being front, and moves front to 37
C13_ReplayScenarioFrontAccepted ==
  last.op = "insert"
  => /\ last.ret = ScriptResults(TRUE)[last.pos[last.client]]
     /\ last.front = IF last.pos[last.client] = Len(GuardScript) THEN 37
                     ELSE 36

\* the scenario has run to its end for a client
C13_Witness ==
  /\ last.op = "insert"
  /\ last.pos[last.client] = Len(GuardScript)
  /\ last.arg = 36
  /\ last.ret

(***************************************************************************)
(* Traffic of which one byte is altered in transit, towards a server whose *)
(* clock agrees with the client's or is more than a day ahead of it        *)
(***************************************************************************)
\* the server's clock at the start: the client's, or 86401 seconds later
SkewTimes == {StartTime, pack_I(1000000 + 86401)}

InitSkew == \E ts \in SkewTimes : InitWith(<< >>, StartTime, ts)

SpecSkew == InitSkew /\ [][NextCorrupt]_vars

\* C14: get_overhead(direction) returns 4 for both directions in every
\* reachable state of a session, also after an authentication failure or a
\* framing error
C14_OverheadFour ==
  \A direction \in BOOLEAN :
    get_overhead(client, direction) = 4 /\ get_overhead(server, direction) = 4

\* C14 as amended: get_overhead returns 4 for both directions in every
\* reachable state, also after a framing error, except that it returns 0
\* once the server refused the handshake through not_match_return
C14_OverheadFourUnlessRefused ==
  \A direction \in BOOLEAN :
    /\ get_overhead(client, direction) = 4
    /\ get_overhead(server, direction)
         = IF server.raw_trans /\ ~server.has_recv_header THEN 0 ELSE 4

\* the server refused a handshake for its timestamp and reports overhead 0
C14_Witness ==
  /\ now.s # now.c
  /\ last.op = "server_post_decrypt"
  /\ ~last.raw_before
  /\ server.raw_trans
  /\ ~server.has_recv_header
  /\ get_overhead(server, TRUE) = 0

(***************************************************************************)
(* The generator alone: random_client of the client session is seeded from *)
(* a byte string, with or without a length, and drawn from.                *)
(***************************************************************************)
\* the byte strings the generator is seeded from: zeros, ones, a digest, a
\* ramp, and two strings shorter than 16 bytes
SeedBins ==
  {Rep(0, 16), Rep(255, 16), hmac_md5(UserKey, <<1, 2, 3, 4>>),
   [i \in 1..16 |-> 16 * i - 1], <<1, 2, 3>>, << >>}

\* the lengths it is seeded with
SeedLengths == {0, 1, 521, 65535}

\* the bound on the number of draws after a seeding
MaxDraws == 3

\* how the generator was seeded, the number n of draws since, and the value
\* the last draw returned
NoDraw ==
  [op |-> "", how |-> "", bin |-> << >>, length |-> 0, n |-> 0,
   ret |-> Rep(0, 8)]

InitPrng == InitLast(NoDraw)

\* random.init_from_bin(bin)
Seed(bin) ==
  /\ client' = [client EXCEPT !.random_client = init_from_bin(bin)]
  /\ last' = [op |-> "init_from_bin", how |-> "init_from_bin", bin |-> bin,
              length |-> 0, n |-> 0, ret |-> Rep(0, 8)]
  /\ UNCHANGED <<cdata, server, sdata, c2s, s2c, now, sent_c, rcvd_s, sent_s,
                 rcvd_c, calls, cmdlog, raised, hit, guard>>

\* random.init_from_bin_len(bin, length)
SeedLen(bin, length) ==
  /\ client' = [client EXCEPT
                  !.random_client = init_from_bin_len(bin, length)]
  /\ last' = [op |-> "init_from_bin_len", how |-> "init_from_bin_len",
              bin |-> bin, length |-> length, n |-> 0, ret |-> Rep(0, 8)]
  /\ UNCHANGED <<cdata, server, sdata, c2s, s2c, now, sent_c, rcvd_s, sent_s,
                 rcvd_c, calls, cmdlog, raised, hit, guard>>

\* random.next()
Draw ==
  /\ last.how # ""
  /\ last.n < MaxDraws
  /\ \E r \in {next(client.random_client)} :
        /\ client' = [client EXCEPT
                        !.random_client = [v0 |-> r.v0, v1 |-> r.v1]]
        /\ last' = [last EXCEPT !.op = "next", !.n = @ + 1, !.ret = r.out]
  /\ UNCHANGED <<cdata, server, sdata, c2s, s2c, now, sent_c, rcvd_s, sent_s,
                 rcvd_c, calls, cmdlog, raised, hit, guard>>

NextPrng ==
  \/ \E bin \in SeedBins : Seed(bin)
  \/ \E bin \in SeedBins : \E length \in SeedLengths : SeedLen(bin, length)
  \/ Draw

SpecPrng == InitPrng /\ [][NextPrng]_vars

\* seeded from 16 zero bytes: by init_from_bin the first next() returns 0;
\* by init_from_bin_len with length 1 the state is v0 = 1, v1 = 0 and the
\* first next() returns first
ZeroSeeded(first) ==
  /\ (last.how = "init_from_bin" /\ last.bin = Rep(0, 16) /\ last.n = 1)
     => last.ret = Rep(0, 8)
  /\ (last.how = "init_from_bin_len" /\ last.bin = Rep(0, 16)
      /\ last.length = 1)
     => /\ last.n = 0 => /\ client.random_client.v0 = <<1>> \o Rep(0, 7)
                         /\ client.random_client.v1 = Rep(0, 8)
        /\ last.n = 1 => last.ret = first

\* C15: seeded by init_from_bin with 16 zero bytes the first next() returns
\* 0, and seeded by init_from_bin_len(16 zero bytes, 1) the state has
\* v0 = 1, v1 = 0 and the first next() returns 0x0000000000000001
C15_ZeroSeedVectors == ZeroSeeded(<<1>> \o Rep(0, 7))

\* C15 as amended: the same, the first next() after
\* init_from_bin_len(16 zero bytes, 1) returning 0x0000000000800041
C15_ZeroSeedVectorsShifted == ZeroSeeded(<<65, 0, 128>> \o Rep(0, 5))

\* the first draw after init_from_bin_len(16 zero bytes, 1)
C15_Witness ==
  /\ last.op = "next"
  /\ last.how = "init_from_bin_len"
  /\ last.bin = Rep(0, 16)
  /\ last.length = 1
  /\ last.n = 1
  /\ last.ret = <<65, 0, 128, 0, 0, 0, 0, 0>>



(***************************************************************************)
(* The UDP handlers.  A datagram is                                        *)
(*   ciphertext + padding + authdata + [uid ^ md5data[:4]] + tag           *)
(* with 3 bytes of authdata and the 4-byte uid field from the client, and  *)
(* 7 bytes of authdata and no uid field from the server.                   *)
(***************************************************************************)
\* a Python slice bound i on a sequence of n elements
PyIndex(i, n) == IF i < 0 THEN Max(0, n + i) ELSE Min(i, n)

\* s[a:b] with Python's negative bounds
PySlice(s, a, b) == Slice(s, PyIndex(a, Len(s)), PyIndex(b, Len(s)))

\* udp_rnd_data_len: random.init_from_bin(last_hash); random.next() % 127
udp_rnd_data_len(last_hash) ==
  Only({ [random |-> [v0 |-> n.v0, v1 |-> n.v1], val |-> Mod64(n.out, 127)]
       : n \in {next(init_from_bin(last_hash))} })

\* encrypt.Encryptor(b64(user_key) + b64(md5data), 'chacha20', mac_key[:8])
UdpEncryptor(user_key, md5data, iv) ==
  Encryptor(b64encode(user_key) \o b64encode(md5data), "chacha20", iv)

\* encryptor.decrypt(mac_key[:8]); encryptor.decrypt(data)
UdpDecrypt(user_key, md5data, mac_key, data) ==
  decrypt(decrypt(UdpEncryptor(user_key, md5data, << >>),
                  Slice(mac_key, 0, 8)).e, data).out

\* encryptor.encrypt(b''); encryptor.encrypt(buf)
UdpEncrypt(user_key, md5data, mac_key, buf) ==
  encrypt(encrypt(UdpEncryptor(user_key, md5data, Slice(mac_key, 0, 8)),
                  << >>).e, buf).out

\* buf + hmac.new(user_key, buf, self.hashfunc).digest()[:1]
UdpTagged(user_key, buf) == buf \o Slice(hmac_md5(user_key, buf), 0, 1)

\* the user key server_udp_post_decrypt checks a datagram of this uid with
UdpKeyFor(si, uid) ==
  IF uid \in DOMAIN si.users THEN si.users[uid]
  ELSE IF DOMAIN si.users = {} THEN si.key ELSE si.recv_iv

\* server_udp_post_decrypt after the uid field was unpacked
ServerUdpBody(o, buf, md5data, uid) ==
  IF Slice(hmac_md5(UdpKeyFor(o.server_info, uid), PySlice(buf, 0, -1)), 0, 1)
     # PySlice(buf, -1, Len(buf)) THEN
    [o |-> o, ret |-> << >>, uid |-> None, exc |-> ""]
  ELSE
    Only({ [o |-> [o EXCEPT !.random_client = rl.random],
            ret |-> UdpDecrypt(UdpKeyFor(o.server_info, uid), md5data,
                               o.server_info.key,
                               PySlice(buf, 0, -8 - rl.val)),
            uid |-> IF uid \in DOMAIN o.server_info.users THEN uid ELSE None,
            exc |-> ""]
         : rl \in {udp_rnd_data_len(md5data)} })

\* server_udp_post_decrypt: the object afterwards, the plaintext and uid
\* returned, and the exception that escapes.  struct.unpack('<I', buf[-5:-1])
\* raises struct.error unless the slice has 4 bytes.
server_udp_post_decrypt(o, buf) ==
  IF Len(PySlice(buf, -5, -1)) # 4 THEN
    [o |-> o, ret |-> << >>, uid |-> None, exc |-> "struct.error"]
  ELSE
    Only({ ServerUdpBody(o, buf, md5data,
                         XorBytes(PySlice(buf, -5, -1), Slice(md5data, 0, 4)))
         : md5data \in {hmac_md5(o.server_info.key, PySlice(buf, -8, -5))} })

\* client_udp_post_decrypt: hmac.new(self.user_key, ...) raises TypeError
\* while user_key is None
client_udp_post_decrypt(o, buf) ==
  IF Len(buf) <= 8 THEN [o |-> o, ret |-> << >>, uid |-> None, exc |-> ""]
  ELSE IF o.user_key = None THEN
    [o |-> o, ret |-> << >>, uid |-> None, exc |-> "TypeError"]
  ELSE IF Slice(hmac_md5(o.user_key, PySlice(buf, 0, -1)), 0, 1)
          # PySlice(buf, -1, Len(buf)) THEN
    [o |-> o, ret |-> << >>, uid |-> None, exc |-> ""]
  ELSE
    Only({ [o |-> [o EXCEPT !.random_server = rl.random],
            ret |-> UdpDecrypt(o.user_key, md5data, o.server_info.key,
                               PySlice(buf, 0, -8 - rl.val)),
            uid |-> None, exc |-> ""]
         : rl \in {udp_rnd_data_len(
                      hmac_md5(o.server_info.key, PySlice(buf, -8, -1)))},
           md5data \in {hmac_md5(o.server_info.key, PySlice(buf, -8, -1))} })

\* client_udp_pre_encrypt, lines 799-811: the first datagram fixes user_key
\* and user_id.  to_bytes(protocol_param).split(':') splits bytes by a str,
\* which raises TypeError inside the try, so "except: pass" leaves both
\* unset and the fallback takes a random uid and the server key.
ClientUdpKeys(o, uid) ==
  IF o.user_key # None THEN o
  ELSE [o EXCEPT !.user_id = uid, !.user_key = o.server_info.key]

\* client_udp_pre_encrypt, lines 812-821, for the keys fixed above
ClientUdpPacket(o, buf, authdata, fill, md5data) ==
  Only({ [o |-> [o EXCEPT !.random_client = rl.random],
          ret |-> UdpTagged(o.user_key,
                    UdpEncrypt(o.user_key, md5data, o.server_info.key, buf)
                    \o Rep(fill, rl.val) \o authdata
                    \o XorBytes(o.user_id, Slice(md5data, 0, 4))),
          exc |-> ""]
       : rl \in {udp_rnd_data_len(md5data)} })

\* client_udp_pre_encrypt(buf) with rand_bytes(4) = uid,
\* rand_bytes(3) = authdata and padding bytes fill; struct.unpack of a
\* user_id that is still None raises TypeError
client_udp_pre_encrypt(o, buf, uid, authdata, fill) ==
  IF ClientUdpKeys(o, uid).user_id = None THEN
    [o |-> ClientUdpKeys(o, uid), ret |-> << >>, exc |-> "TypeError"]
  ELSE ClientUdpPacket(ClientUdpKeys(o, uid), buf, authdata, fill,
                       hmac_md5(o.server_info.key, authdata))

\* server_udp_pre_encrypt(buf, uid) with rand_bytes(7) = authdata
server_udp_pre_encrypt(o, buf, uid, authdata, fill) ==
  Only({ [o |-> [o EXCEPT !.random_server = rl.random],
          ret |-> UdpTagged(user_key,
                    UdpEncrypt(user_key, md5data, o.server_info.key, buf)
                    \o Rep(fill, rl.val) \o authdata),
          exc |-> ""]
       : rl \in {udp_rnd_data_len(hmac_md5(o.server_info.key, authdata))},
         md5data \in {hmac_md5(o.server_info.key, authdata)},
         user_key \in {UdpKeyFor(o.server_info, uid)} })


(***************************************************************************)
(* The UDP handlers at work: c2s and s2c hold at most one datagram in      *)
(* flight each, the sessions send honest datagrams, and the network may    *)
(* alter the tag of a datagram or inject a datagram of any short length.   *)
(***************************************************************************)
\* the number of datagrams each side sends
MaxUdp == 1

\* the lengths of injected datagrams: below, at and above the 8-byte trailer
JunkLens == {0, 4, 5, 8, 9}

\* the payloads of honest datagrams
UdpPlain == {<< >>, <<112, 105, 110, 103>>}

\* what rand_bytes(3) and rand_bytes(7) return for authdata
UdpAuth3 == {<<1, 2, 3>>}

UdpAuth7 == {<<1, 2, 3, 4, 5, 6, 7>>}

\* what rand_bytes(4) returns for the uid of a client without one
UdpUids == {<<9, 9, 9, 9>>}

\* a multi-user server and a single-user server
UdpServerInfos == {ServerInfo, [ServerInfo EXCEPT !.users = << >>]}

\* every key a server checks tags with
ServerUdpKeys(si) ==
  {si.key, si.recv_iv} \cup {si.users[u] : u \in DOMAIN si.users}

\* every key a client checks tags with
ClientTagKeys(o) == IF o.user_key = None THEN {} ELSE {o.user_key}

\* the last byte of the datagram is the first HMAC byte, under one of the
\* keys, of everything before it
TagVerifies(keys, d) ==
  /\ Len(d) >= 1
  /\ \E k \in keys :
       Slice(hmac_md5(k, SubSeq(d, 1, Len(d) - 1)), 0, 1) = <<d[Len(d)]>>

\* the record of a UDP post_decrypt call on datagram d
UdpCall(op, d, r, o, verifies) ==
  [op |-> op, arg |-> d, ret |-> r.ret, uid |-> r.uid, exc |-> r.exc,
   unchanged |-> (r.o = o), verifies |-> verifies]

NoUdpCall ==
  [op |-> "", arg |-> << >>, ret |-> << >>, uid |-> None, exc |-> "",
   unchanged |-> TRUE, verifies |-> FALSE]

InitUdp ==
  /\ client = NewClient
  /\ cdata = set_server_info(obfs_auth_akarin_data, ClientInfo)
  /\ \E si \in UdpServerInfos :
       /\ server = auth_akarin_rand("auth_akarin_rand", si)
       /\ sdata = set_server_info(obfs_auth_akarin_data, si)
  /\ c2s = << >> /\ s2c = << >>
  /\ now = [c |-> StartTime, s |-> StartTime]
  /\ sent_c = << >> /\ rcvd_s = << >> /\ sent_s = << >> /\ rcvd_c = << >>
  /\ calls = [c |-> 0, s |-> 0]
  /\ cmdlog = << >>
  /\ raised = [c |-> "", s |-> "", after |-> 0]
  /\ hit = [dir |-> "", kind |-> "", before |-> << >>, id |-> Zero32]
  /\ guard = [parked |-> << >>, seen |-> {}, replaying |-> FALSE, ticks |-> 0]
  /\ last = NoUdpCall

\* the client sends a datagram
UdpClientSend(buf, uid, authdata) ==
  /\ c2s = << >>
  /\ calls.c < MaxUdp
  /\ \E r \in {client_udp_pre_encrypt(client, buf, uid, authdata, Fill)} :
       /\ client' = r.o
       /\ c2s' = IF r.exc = "" THEN <<r.ret>> ELSE << >>
       /\ raised' = [raised EXCEPT !.c = r.exc]
  /\ calls' = [calls EXCEPT !.c = @ + 1]
  /\ UNCHANGED <<cdata, server, sdata, s2c, now, sent_c, rcvd_s, sent_s,
                 rcvd_c, cmdlog, hit, guard, last>>

\* the server sends a datagram to the user uid
UdpServerSend(buf, uid, authdata) ==
  /\ s2c = << >>
  /\ calls.s < MaxUdp
  /\ \E r \in {server_udp_pre_encrypt(server, buf, uid, authdata, Fill)} :
       /\ server' = r.o
       /\ s2c' = <<r.ret>>
  /\ calls' = [calls EXCEPT !.s = @ + 1]
  /\ UNCHANGED <<client, cdata, sdata, c2s, now, sent_c, rcvd_s, sent_s,
                 rcvd_c, cmdlog, raised, hit, guard, last>>

\* d with its last byte, the tag, changed
FlipTag(d) == [d EXCEPT ![Len(d)] = (@ + 1) % 256]

\* the network changes the tag of the datagram in flight
UdpFlipTag ==
  /\ hit.kind = ""
  /\ \/ /\ c2s # << >> /\ Len(c2s[1]) > 0
        /\ c2s' = <<FlipTag(c2s[1])>> /\ s2c' = s2c
        /\ hit' = [hit EXCEPT !.dir = "c2s", !.kind = "tag"]
     \/ /\ s2c # << >> /\ Len(s2c[1]) > 0
        /\ s2c' = <<FlipTag(s2c[1])>> /\ c2s' = c2s
        /\ hit' = [hit EXCEPT !.dir = "s2c", !.kind = "tag"]
  /\ UNCHANGED <<client, cdata, server, sdata, now, sent_c, rcvd_s, sent_s,
                 rcvd_c, calls, cmdlog, raised, guard, last>>

\* the network injects a datagram of n bytes
UdpInject(n) ==
  /\ guard.ticks < MaxTicks
  /\ \/ c2s = << >> /\ c2s' = <<Rep(Fill, n)>> /\ s2c' = s2c
     \/ s2c = << >> /\ s2c' = <<Rep(Fill, n)>> /\ c2s' = c2s
  /\ guard' = [guard EXCEPT !.ticks = @ + 1]
  /\ UNCHANGED <<client, cdata, server, sdata, now, sent_c, rcvd_s, sent_s,
                 rcvd_c, calls, cmdlog, raised, hit, last>>

\* the server is handed the datagram in flight
UdpServerRecv ==
  /\ c2s # << >>
  /\ \E r \in {server_udp_post_decrypt(server, c2s[1])} :
       /\ server' = r.o
       /\ last' = UdpCall("server_udp_post_decrypt", c2s[1], r, server,
                          TagVerifies(ServerUdpKeys(server.server_info),
                                      c2s[1]))
       /\ raised' = [raised EXCEPT !.s = r.exc]
  /\ c2s' = << >>
  /\ UNCHANGED <<client, cdata, sdata, s2c, now, sent_c, rcvd_s, sent_s,
                 rcvd_c, calls, cmdlog, hit, guard>>

\* the client is handed the datagram in flight
UdpClientRecv ==
  /\ s2c # << >>
  /\ \E r \in {client_udp_post_decrypt(client, s2c[1])} :
       /\ client' = r.o
       /\ last' = UdpCall("client_udp_post_decrypt", s2c[1], r, client,
                          TagVerifies(ClientTagKeys(client), s2c[1]))
       /\ raised' = [raised EXCEPT !.c = r.exc]
  /\ s2c' = << >>
  /\ UNCHANGED <<cdata, server, sdata, c2s, now, sent_c, rcvd_s, sent_s,
                 rcvd_c, calls, cmdlog, hit, guard>>

NextUdp ==
  \/ \E buf \in UdpPlain, uid \in UdpUids, authdata \in UdpAuth3 :
       UdpClientSend(buf, uid, authdata)
  \/ \E buf \in UdpPlain, uid \in {UserId, None}, authdata \in UdpAuth7 :
       UdpServerSend(buf, uid, authdata)
  \/ UdpFlipTag
  \/ \E n \in JunkLens : UdpInject(n)
  \/ UdpServerRecv
  \/ UdpClientRecv

SpecUdp == InitUdp /\ [][NextUdp]_vars

\* C16: a UDP datagram whose tag does not verify, of any length, makes
\* post_decrypt return empty plaintext (with uid None), raise nothing and
\* leave the session as it was.
C16_UdpMismatchSilent ==
  (last.op # "" /\ ~last.verifies) =>
    /\ last.ret = << >>
    /\ last.uid = None
    /\ last.exc = ""
    /\ last.unchanged


(***************************************************************************)
(* The handshake under every way it can fail: the client's first flight is *)
(* altered in its head or in its user digest, the clocks of the two ends   *)
(* are a day apart, or a handshake that was accepted is sent again.        *)
(***************************************************************************)
\* the offsets at which the network alters a handshake: its random head, the
\* head digest, the uid field, the encrypted head and the user digest
HsFlips == {0, 5, 13, 20, 35}

\* the network alters one byte of a handshake no byte of which was delivered
HsFlip(pos) ==
  /\ hit.dir = ""
  /\ server.recv_buf = << >> /\ ~server.has_recv_header /\ ~server.raw_trans
  /\ Len(c2s) >= 36
  /\ c2s' = [c2s EXCEPT ![pos + 1] = XorN(@, 1, 8)]
  /\ hit' = [hit EXCEPT !.dir = "c2s", !.kind = "handshake"]
  /\ UNCHANGED <<client, cdata, server, sdata, s2c, now, sent_c, rcvd_s,
                 sent_s, rcvd_c, calls, cmdlog, raised, guard, last>>

NextHandshake ==
  \/ /\ ~client.has_sent_header
     /\ ~guard.replaying
     /\ \E buf \in CorruptClientPlain : \E alt \in Alts \cup {NoAlt} :
          ClientSend(buf, 0, alt)
  \/ \E n \in Pieces(c2s, server.recv_buf) : ServerRecv(n)
  \/ Reconnect
  \/ \E h \in guard.seen : Replay(h)
  \/ \E pos \in HsFlips : HsFlip(pos)

SpecHandshake == InitSkew /\ [][NextHandshake]_vars

\* the digest of the 4-byte head of the handshake hs under recv_iv || key
HsHeadDigest(si, hs) == hmac_md5(si.recv_iv \o si.key, Slice(hs, 0, 4))

\* check 1: bytes 4..12 are the first 8 bytes of the head digest
HsHeadOk(si, hs) == Slice(HsHeadDigest(si, hs), 0, 8) = Slice(hs, 4, 12)

\* the user id the handshake names
HsUid(si, hs) == XorBytes(Slice(hs, 12, 16), Slice(HsHeadDigest(si, hs), 8, 12))

\* the key looked up for it: the user's key, or for an unknown user the
\* server key of a single-user server and recv_iv of a multi-user server
HsUserKey(si, hs) ==
  IF HsUid(si, hs) \in DOMAIN si.users THEN si.users[HsUid(si, hs)]
  ELSE IF DOMAIN si.users = {} THEN si.key ELSE si.recv_iv

\* check 2: bytes 32..36 are the first 4 bytes of the digest of bytes 12..32
\* under the looked-up key
HsUserOk(si, hs) ==
  Slice(hmac_md5(HsUserKey(si, hs), Slice(hs, 12, 32)), 0, 4)
    = Slice(hs, 32, 36)

\* the 16 bytes utc_time, client_id, connection_id, overhead, tcp_mss
HsHead(si, hs) ==
  decrypt(Encryptor(b64encode(HsUserKey(si, hs)) \o salt, "aes-128-cbc",
                    << >>),
          Rep(0, 16) \o Slice(hs, 16, 32) \o <<0>>).out

\* check 3: utc_time is within max_time_dif of the server's clock, the
\* difference taken modulo 2^32 as a signed value
HsTimeOk(si, hs, t) == ~WrapFar(Slice(HsHead(si, hs), 0, 4), t)

\* check 4: the replay guard d accepts (uid, client_id, connection_id)
HsGuardOk(si, d, hs, t) ==
  data_insert(d,
              IF HsUid(si, hs) \in DOMAIN si.users THEN HsUid(si, hs) ELSE None,
              Slice(HsHead(si, hs), 4, 8),
              unpack_I(Slice(HsHead(si, hs), 8, 12)), t).ok

\* all four checks pass on the same 36 bytes
HsAllFour(si, d, hs, t) ==
  /\ Len(hs) = 36
  /\ HsHeadOk(si, hs)
  /\ HsUserOk(si, hs)
  /\ HsTimeOk(si, hs, t)
  /\ HsGuardOk(si, d, hs, t)

\* a check has failed on what was received: the head digest once 12 bytes
\* are there, any of the four once 36 bytes are there
HsFailed(si, d, rb, t) ==
  \/ Len(rb) >= 12 /\ ~HsHeadOk(si, rb)
  \/ Len(rb) >= 36 /\ ~HsAllFour(si, d, Slice(rb, 0, 36), t)

\* the verdict of a call that takes session o, holding rb after the call's
\* bytes were appended, to o2
HsVerdict(o, d, rb, t, o2) ==
  /\ (o2.has_recv_header \/ o2.encryptor.set) =>
       HsAllFour(o.server_info, d, Slice(rb, 0, 36), t)
  /\ HsAllFour(o.server_info, d, Slice(rb, 0, 36), t) =>
       (o2.has_recv_header /\ o2.encryptor.set)
  /\ HsFailed(o.server_info, d, rb, t) =>
       (o2.raw_trans /\ ~o2.has_recv_header /\ ~o2.encryptor.set)

\* C17: a server_post_decrypt call on a session still in its handshake sets
\* has_recv_header and creates the payload cipher only if the head digest,
\* the user digest, the timestamp window (the difference taken as a signed
\* 32-bit value) and the replay guard all passed on the same 36 bytes; if
\* one of them failed the call leaves the session in raw_trans with
\* has_recv_header false and no cipher.
C17_HandshakeAllOrNothing ==
  [][(Len(c2s') < Len(c2s) /\ ~server.raw_trans /\ ~server.has_recv_header)
       => HsVerdict(server, sdata,
                    server.recv_buf \o Slice(c2s, 0, Len(c2s) - Len(c2s')),
                    now.s, server')]_vars

\* one session was refused and is in raw_trans without has_recv_header, and
\* the session after it passed all four checks and holds its cipher
C17_Witness ==
  /\ last.op = "server_post_decrypt" /\ last.accepted
  /\ server.has_recv_header /\ server.encryptor.set
  /\ Len(guard.parked) >= 1
  /\ guard.parked[1].raw_trans /\ ~guard.parked[1].has_recv_header


\* the head digest, the user digest and the timestamp window pass on the 36
\* bytes rb opens with: the handshake reaches the replay guard
HsGuardAsked(si, rb, t) ==
  /\ Len(rb) >= 36
  /\ HsHeadOk(si, Slice(rb, 0, 36))
  /\ HsUserOk(si, Slice(rb, 0, 36))
  /\ HsTimeOk(si, Slice(rb, 0, 36), t)

\* the call takes a session in its handshake to raw_trans, the handshake
\* having failed before the replay guard was asked
HsRejectedEarly ==
  /\ Len(c2s') < Len(c2s)
  /\ ~server.raw_trans /\ ~server.has_recv_header
  /\ server'.raw_trans /\ ~server'.has_recv_header
  /\ ~HsGuardAsked(server.server_info,
                   server.recv_buf \o Slice(c2s, 0, Len(c2s) - Len(c2s')),
                   now.s)

\* C30: a server_post_decrypt call that rejects a handshake by the head
\* digest, the user digest or the timestamp window leaves the shared data
\* of the replay guard as it was: the tables, and every field of every
\* queue.
C30_RejectionLeavesGuard == [][HsRejectedEarly => sdata' = sdata]_vars

\* after a session was accepted and the guard holds its queue, the handshake
\* of the next session was altered and rejected
C30_Witness ==
  /\ last.op = "server_post_decrypt"
  /\ server.raw_trans /\ ~server.has_recv_header
  /\ hit.kind = "handshake"
  /\ Len(guard.parked) >= 1
  /\ guard.parked[1].has_recv_header
  /\ sdata.user_id # << >>


(***************************************************************************)
(* The replay guard at capacity: a table limited to one or two client      *)
(* queues and three clients of one user.                                   *)
(***************************************************************************)
EvictClients == {<<1, 0, 0, 0>>, <<2, 0, 0, 0>>, <<3, 0, 0, 0>>}

EvictConns == {100, 101}

\* the protocol_param of the server: max_client is 1 or 2
EvictParams == {<<49>>, <<50>>}

\* the bound on the number of calls of the guard
MaxEvictOps == 5

\* the table of user UserId
TableOf(d) == user_table(d, UserId)

\* the record of a call of the guard: the table before and after it
EvictCall(op, c, ok, t, d, d2, n) ==
  [op |-> op, client |-> c, ret |-> ok, now |-> t, before |-> TableOf(d),
   after |-> TableOf(d2), max_client |-> d.max_client, step |-> n]

InitEvict ==
  /\ client = NewClient
  /\ cdata = set_server_info(obfs_auth_akarin_data, ClientInfo)
  /\ server = NewServer
  /\ \E param \in EvictParams :
       sdata = set_server_info(obfs_auth_akarin_data,
                               [ServerInfo EXCEPT !.protocol_param = param])
  /\ c2s = << >> /\ s2c = << >>
  /\ now = [c |-> StartTime, s |-> StartTime]
  /\ sent_c = << >> /\ rcvd_s = << >> /\ sent_s = << >> /\ rcvd_c = << >>
  /\ calls = [c |-> 0, s |-> 0]
  /\ cmdlog = << >>
  /\ raised = [c |-> "", s |-> "", after |-> 0]
  /\ hit = [dir |-> "", kind |-> "", before |-> << >>, id |-> Zero32]
  /\ guard = [parked |-> << >>, seen |-> {}, replaying |-> FALSE, ticks |-> 0]
  /\ last = EvictCall("", << >>, FALSE, StartTime, obfs_auth_akarin_data,
                      obfs_auth_akarin_data, 0)

\* a handshake of client c with connection id conn reaches
\* obfs_auth_akarin_data.insert
EvictInsert(c, conn) ==
  /\ last.step < MaxEvictOps
  /\ \E r \in {data_insert(sdata, UserId, c, conn, now.s)} :
        /\ sdata' = r.d
        /\ last' = EvictCall("insert", c, r.ok, now.s, sdata, r.d,
                             last.step + 1)
  /\ UNCHANGED <<client, cdata, server, c2s, s2c, now, sent_c, rcvd_s,
                 sent_s, rcvd_c, calls, cmdlog, raised, hit, guard>>

\* obfs_auth_akarin_data.update for client c
EvictUpdate(c) ==
  /\ last.step < MaxEvictOps
  /\ \E d \in {data_update(sdata, UserId, c, 0, now.s)} :
        /\ sdata' = d
        /\ last' = EvictCall("update", c, FALSE, now.s, sdata, d,
                             last.step + 1)
  /\ UNCHANGED <<client, cdata, server, c2s, s2c, now, sent_c, rcvd_s,
                 sent_s, rcvd_c, calls, cmdlog, raised, hit, guard>>

\* obfs_auth_akarin_data.remove for client c
EvictRemove(c) ==
  /\ last.step < MaxEvictOps
  /\ \E d \in {data_remove(sdata, UserId, c)} :
        /\ sdata' = d
        /\ last' = EvictCall("remove", c, FALSE, now.s, sdata, d,
                             last.step + 1)
  /\ UNCHANGED <<client, cdata, server, c2s, s2c, now, sent_c, rcvd_s,
                 sent_s, rcvd_c, calls, cmdlog, raised, hit, guard>>

NextEvict ==
  \/ \E c \in EvictClients : \E conn \in EvictConns : EvictInsert(c, conn)
  \/ \E c \in EvictClients : EvictUpdate(c)
  \/ \E c \in EvictClients : EvictRemove(c)
  \/ \E dt \in TickSteps : Tick(dt)

SpecEvict == InitEvict /\ [][NextEvict]_vars

\* the client ids a table holds
KeysOf(t) == {t.order[i] : i \in 1..Len(t.order)}

\* the tables hold the same queue under client id k
SameEntry(t, t2, k) ==
  /\ lru_contains(t, k) /\ lru_contains(t2, k)
  /\ lru_value(t, k) = lru_value(t2, k)

\* the call was an insert for a client without entry on a full table
FullInsert(l) ==
  /\ l.op = "insert"
  /\ ~lru_contains(l.before, l.client)
  /\ Len(l.before.order) >= l.max_client

\* C21: an insert for a client without entry on a table that holds
\* max_client entries removes at most the least-recently-used entry, and
\* that only if it is inactive; if it is active the call returns false and
\* no entry is added, removed or modified.
C21_EvictOnlyInactiveFront ==
  FullInsert(last) =>
    /\ (KeysOf(last.before) \ KeysOf(last.after)) \subseteq {last.before.order[1]}
    /\ \A k \in KeysOf(last.before) \ KeysOf(last.after) :
         ~is_active(lru_value(last.before, k), last.now)
    /\ is_active(last.before.store[1], last.now) =>
         /\ ~last.ret
         /\ KeysOf(last.after) = KeysOf(last.before)
         /\ \A k \in KeysOf(last.before) :
              SameEntry(last.before, last.after, k)

\* C22: the table of a user never holds more than max_client client queues.
C22_BoundedTable == Len(TableOf(sdata).order) <= sdata.max_client

\* an insert for a new client met a full table of two entries
C22_Witness ==
  /\ FullInsert(last)
  /\ last.max_client = 2
  /\ Len(TableOf(sdata).order) = 2


\* C26: between an honest client and server exchanging packets in order, no
\* call of send_rnd_data_len or recv_rnd_data_len reaches its final branch
\* with a modulus of zero: no handler raises ZeroDivisionError.
C26_PaddingNeverDividesByZero ==
  /\ raised.c # "ZeroDivisionError"
  /\ raised.s # "ZeroDivisionError"
  /\ last.exc # "ZeroDivisionError"


(***************************************************************************)
(* An established session late in its life.  The two ends run the          *)
(* handshake, the server's first reply and the client's command packet;    *)
(* then the packet counters of both directions stand either where that     *)
(* exchange left them or, 2^32 - 2 packets later, at 0 after wrapping.      *)
(***************************************************************************)
\* a server whose tcp_mss makes unit_len 402
WrapServerInfo == [ServerInfo EXCEPT !.tcp_mss = 406]

\* n bytes of payload
Payload(n) == [i \in 1..n |-> (i * 5) % 256]

\* client_pre_encrypt(b''): the handshake
Mid1 ==
  client_pre_encrypt(NewClient, set_server_info(obfs_auth_akarin_data,
                                                ClientInfo),
                     << >>, StartTime, ClientRnd(0), Fill)

\* server_post_decrypt of the handshake
Mid2 ==
  server_post_decrypt(auth_akarin_rand("auth_akarin_rand", WrapServerInfo),
                      set_server_info(obfs_auth_akarin_data, WrapServerInfo),
                      Mid1.ret, StartTime)

\* server_pre_encrypt of 400 bytes: the first reply, one packet
Mid3 == server_pre_encrypt(Mid2.o, Payload(400), Fill)

\* client_post_decrypt of the first reply
Mid4 == client_post_decrypt(Mid1.o, Mid3.ret)

\* client_pre_encrypt(b''): the packet that carries the command
Mid5 == client_pre_encrypt(Mid4.o, Mid1.d, << >>, StartTime, ClientRnd(0), Fill)

\* server_post_decrypt of the command packet
Mid6 == server_post_decrypt(Mid3.o, Mid2.d, Mid5.ret, StartTime)

\* the exchange went through
MidSound ==
  /\ Mid1.exc = "" /\ Mid2.exc = "" /\ Mid3.exc = "" /\ Mid4.exc = ""
  /\ Mid5.exc = "" /\ Mid6.exc = ""
  /\ Mid2.o.has_recv_header /\ ~Mid6.o.raw_trans /\ ~Mid5.o.raw_trans
  /\ Mid4.ret = Payload(400)
  /\ Mid6.o.recv_id = Mid5.o.pack_id /\ Mid5.o.recv_id = Mid6.o.pack_id

InitWrap ==
  /\ MidSound
  /\ \E late \in BOOLEAN :
       /\ client = IF late
                   THEN [Mid5.o EXCEPT !.pack_id = Zero32, !.recv_id = Zero32]
                   ELSE Mid5.o
       /\ server = IF late
                   THEN [Mid6.o EXCEPT !.pack_id = Zero32, !.recv_id = Zero32]
                   ELSE Mid6.o
  /\ cdata = Mid5.d
  /\ sdata = Mid6.d
  /\ c2s = << >> /\ s2c = << >>
  /\ now = [c |-> StartTime, s |-> StartTime]
  /\ sent_c = << >> /\ rcvd_s = << >> /\ sent_s = << >> /\ rcvd_c = << >>
  /\ calls = [c |-> 0, s |-> 0]
  /\ cmdlog = << >>
  /\ raised = [c |-> "", s |-> "", after |-> 0]
  /\ hit = [dir |-> "", kind |-> "", before |-> << >>, id |-> Zero32]
  /\ guard = [parked |-> << >>, seen |-> {}, replaying |-> FALSE, ticks |-> 0,
              prefixed |-> << >>, decoded |-> 0, strips |-> 0, cut |-> 0]
  /\ last = NoCall


\* the plaintexts of the late session: one byte from the client; one byte
\* from the server, or as much as fills one packet and starts a second
WrapClientPlain == {<<120>>}

WrapServerPlain == {<<7>>, Payload(403)}

\* the alterations of the late session: the length word or the tag of the
\* first packet of a call
WrapAlts == {[k |-> 1, pos |-> 0, x |-> 1], [k |-> 1, pos |-> 0 - 1, x |-> 1]}

\* the server_pre_encrypt calls of the late session
MaxWrapSends == 2

\* the network may also deliver the wire up to the end of the first packet
\* of the server's last call
WrapPieces == {k \in {guard.cut} : k < Len(s2c) /\ Len(client.recv_buf) = 0}

\* the number of "ok" in ev: the packets whose tag verified
RECURSIVE CountOk(_)
CountOk(ev) ==
  IF ev = << >> THEN 0
  ELSE (IF Head(ev) = "ok" THEN 1 ELSE 0) + CountOk(Tail(ev))

\* for each packet of a server_pre_encrypt call, whether the MSS prefix was
\* put before its payload: the prefix opens the first packet of the call
PrefixFlags(r) == [i \in 1..Len(r.pks) |-> (i = 1 /\ r.prefix = 2)]

\* ServerSend, keeping in guard.prefixed which packets carry the prefix and
\* in guard.cut where on the wire the first packet of the call ends
WrapServerSend(buf, alt) ==
  /\ Open
  /\ calls.c + calls.s < MaxCalls
  /\ alt = NoAlt \/ hit.dir = ""
  /\ \E r \in {server_pre_encrypt(server, buf, Fill)} :
        /\ alt = NoAlt \/ Applies(r.pks, alt)
        /\ server' = r.o
        /\ s2c' = s2c \o Altered(r.ret, 0, r.pks, alt)
        /\ sent_s' = IF r.exc = "" THEN sent_s \o buf ELSE sent_s
        /\ hit' = Hit("s2c", sent_s, buf, r.prefix, r.pks, alt, server.pack_id)
        /\ guard' = [guard EXCEPT
                       !.prefixed = @ \o PrefixFlags(r),
                       !.cut = IF r.pks = << >> THEN @
                               ELSE Len(s2c) + r.pks[1].len]
        /\ last' = Call("server_pre_encrypt", server, r.o, buf, r.ret, FALSE,
                        r.exc, << >>)
  /\ calls' = [calls EXCEPT !.s = @ + 1]
  /\ raised' = Note("", "")
  /\ UNCHANGED <<client, cdata, sdata, c2s, now, sent_c, rcvd_s, rcvd_c,
                 cmdlog>>

\* ClientRecv, keeping in guard how many packets the client decoded and how
\* many times it stripped a prefix and queued 0xff00
WrapClientRecv(n) ==
  /\ Open
  /\ n > 0
  /\ \E buf \in {Slice(s2c, 0, n)} :
     \E r \in {client_post_decrypt(client, buf)} :
        /\ client' = r.o
        /\ s2c' = Drop(s2c, n)
        /\ rcvd_c' = IF r.exc = "" /\ ~r.o.raw_trans THEN rcvd_c \o r.ret
                     ELSE rcvd_c
        /\ raised' = Note("c", r.exc)
        /\ guard' = [guard EXCEPT
                       !.decoded = @ + CountOk(r.ev),
                       !.strips = @ + Len(r.o.send_back_cmd)
                                    - Len(client.send_back_cmd),
                       !.cut = Max(0, @ - n)]
        /\ last' = Call("client_post_decrypt", client, r.o, buf, r.ret,
                        FALSE, r.exc, r.ev)
  /\ UNCHANGED <<cdata, server, sdata, c2s, now, sent_c, rcvd_s, sent_s,
                 calls, cmdlog, hit>>

NextWrap ==
  \/ /\ calls.c = 0
     /\ \E buf \in WrapClientPlain : \E alt \in WrapAlts \cup {NoAlt} :
          ClientSend(buf, 0, alt)
  \/ \E n \in Pieces(c2s, server.recv_buf) : ServerRecv(n)
  \/ /\ calls.s < MaxWrapSends
     /\ \E buf \in WrapServerPlain : \E alt \in WrapAlts \cup {NoAlt} :
          WrapServerSend(buf, alt)
  \/ \E n \in Pieces(s2c, client.recv_buf) \cup WrapPieces :
       WrapClientRecv(n)

SpecWrap == InitWrap /\ [][NextWrap]_vars

\* id advanced by n modulo 2^32
Advanced(id, n) == Add32(id, pack_I(n))

\* the packets a sender cuts a payload of n bytes into
Units(n, unit_len) ==
  IF n = 0 THEN 1 ELSE (n + unit_len - 1) \div unit_len

\* the packets of a client_post_decrypt call whose tag verified: those that
\* went through, and the one whose payload was too short to hold the MSS
\* prefix taken from it at recv_id 1
ClientVerified(ev) ==
  CountOk(ev)
  + (IF ev # << >> /\ ev[Len(ev)] = "struct.error" THEN 1 ELSE 0)

\* what a receiving call in which n tags verified may do to the counter and
\* the chain head: the counter advances by n, and a call in which none
\* verified and that ended on a bad tag, an oversize length or an incomplete
\* packet leaves the chain head alone
RecvEffect(id, id2, h, h2, ev, n) ==
  /\ id2 = Advanced(id, n)
  /\ (ev = << >> \/ ev \in {<<"badmac">>, <<"oversize">>, <<"wait">>})
       => (id2 = id /\ h2 = h)

\* C23: pack_id advances by one modulo 2^32 per packet emitted, recv_id by
\* one modulo 2^32 per packet whose tag verified, and a receive that ends in
\* a bad tag, an oversize length or an incomplete packet leaves recv_id and
\* the receiver's chain head as they were.
C23_CountersMoveOnSuccess ==
  [][/\ (Len(c2s') > Len(c2s) /\ last'.exc = "") =>
          client'.pack_id = Advanced(client.pack_id,
                                     Units(Len(last'.arg), client.unit_len))
     /\ (Len(s2c') > Len(s2c) /\ last'.exc = "" /\ ~server.raw_trans) =>
          server'.pack_id =
            Advanced(server.pack_id,
                     Units(Len(last'.arg)
                           + (IF server.pack_id = One32 THEN 2 ELSE 0),
                           server'.unit_len))
     /\ (Len(c2s') < Len(c2s) /\ ~server.raw_trans) =>
          RecvEffect(server.recv_id, server'.recv_id,
                     server.last_client_hash, server'.last_client_hash,
                     last'.ev, CountOk(last'.ev))
     /\ (Len(s2c') < Len(s2c) /\ ~client.raw_trans) =>
          RecvEffect(client.recv_id, client'.recv_id,
                     client.last_server_hash, client'.last_server_hash,
                     last'.ev, ClientVerified(last'.ev))]_vars

\* C27: while no packet was altered, the client has stripped the MSS prefix
\* (and queued 0xff00) as many times as there are packets among those it
\* decoded that the server put the prefix before.
C27_PrefixAgreement ==
  hit.dir = "" =>
    /\ guard.decoded <= Len(guard.prefixed)
    /\ guard.strips =
         Cardinality({i \in 1..guard.decoded : guard.prefixed[i]})


\* the places the network may cut the wire at: behind the first packet of
\* the server's last call, and behind a piece of one of the ChunkSizes
Cuts(wire) == {k \in {guard.cut} \cup ChunkSizes : 0 < k /\ k < Len(wire)}

\* client_post_decrypt of the first k bytes of wire, then of the rest
ClientTwice(o, wire, k) ==
  Only({ [first |-> r, second |-> client_post_decrypt(r.o, Drop(wire, k))]
       : r \in {client_post_decrypt(o, Slice(wire, 0, k))} })

\* server_post_decrypt of the first k bytes of wire, then of the rest
ServerTwice(o, d, wire, k, t) ==
  Only({ [first |-> r,
          second |-> server_post_decrypt(r.o, r.d, Drop(wire, k), t)]
       : r \in {server_post_decrypt(o, d, Slice(wire, 0, k), t)} })

\* the two calls of two end as the single call one does: none raises or one
\* of each raises, and when none raises they return the same plaintext and
\* leave the same chain heads, recv_id, recv_tcp_mss and send_tcp_mss
SameOutcome(one, two) ==
  /\ (one.exc = "") = (two.first.exc = "" /\ two.second.exc = "")
  /\ one.exc = "" =>
       /\ one.ret = two.first.ret \o two.second.ret
       /\ one.o.last_client_hash = two.second.o.last_client_hash
       /\ one.o.last_server_hash = two.second.o.last_server_hash
       /\ one.o.recv_id = two.second.o.recv_id
       /\ one.o.recv_tcp_mss = two.second.o.recv_tcp_mss
       /\ one.o.send_tcp_mss = two.second.o.send_tcp_mss

\* o2 is o but for recv_buf and the seeds of the two padding generators
OnlyBuffered(o, o2) ==
  o2 = [o EXCEPT !.recv_buf = o2.recv_buf,
                 !.random_client = o2.random_client,
                 !.random_server = o2.random_server]

\* while no byte was altered, the bytes on either wire give the same
\* outcome whether they are delivered in one call or cut in two
SplitsAgree ==
  /\ (hit.dir = "" /\ ~client.raw_trans) =>
       \A k \in Cuts(s2c) :
         SameOutcome(client_post_decrypt(client, s2c),
                     ClientTwice(client, s2c, k))
  /\ (hit.dir = "" /\ ~server.raw_trans) =>
       \A k \in Cuts(c2s) :
         SameOutcome(server_post_decrypt(server, sdata, c2s, now.s),
                     ServerTwice(server, sdata, c2s, k, now.s))

\* C28: the bytes on a wire give the same plaintext, chain heads, recv_id,
\* recv_tcp_mss and send_tcp_mss whether they are delivered in one call or
\* cut in two, and a call that finds only an incomplete packet changes
\* nothing of the session but recv_buf (and the seed its padding generator
\* was last given).
C28_ChunkingIndependence ==
  [][/\ SplitsAgree
     /\ (last'.op = "client_post_decrypt" /\ last'.ev = <<"wait">>) =>
          OnlyBuffered(client, client')
     /\ (last'.op = "server_post_decrypt" /\ last'.ev = <<"wait">>) =>
          OnlyBuffered(server, server')]_vars

(***************************************************************************)
(* The length words alone.  A plaintext length, a chain head and the       *)
(* command flag are drawn; the sender's masking is applied to them and the *)
(* receiver's unmasking to the words it produced.                          *)
(***************************************************************************)
\* the plaintext lengths drawn, all below 0xff00
MaskLens == {0, 1, 255, 256, 402, 1500, 65024, 65279}

\* the values of the four bytes of a chain head the masks are taken from
MaskBytes == {0, 1, 128, 255}

\* the chain heads drawn: 16 bytes
MaskHeads ==
  {<<7, 7, 7, 7, 7, 7, 7, 7, 7, 7, 7, 7, a, b, c, d>> :
     a \in MaskBytes, b \in MaskBytes, c \in MaskBytes, d \in MaskBytes}

\* no masking done yet for the length n, the chain head h and the flag cmd
MaskDrawn(n, h, cmd) ==
  [op |-> "", len |-> n, head |-> h, cmd |-> cmd, got_len |-> 0,
   got_cmd |-> FALSE, end |-> ""]

InitMask ==
  /\ \E n \in MaskLens : \E h \in MaskHeads : \E cmd \in BOOLEAN :
       /\ client = [NewClient EXCEPT !.last_client_hash = h,
                                     !.last_server_hash = h,
                                     !.send_back_cmd = IF cmd THEN <<65280>>
                                                       ELSE << >>]
       /\ server = [NewServer EXCEPT !.last_client_hash = h,
                                     !.last_server_hash = h]
       /\ last = MaskDrawn(n, h, cmd)
  /\ cdata = set_server_info(obfs_auth_akarin_data, ClientInfo)
  /\ sdata = set_server_info(obfs_auth_akarin_data, ServerInfo)
  /\ c2s = << >> /\ s2c = << >>
  /\ now = [c |-> StartTime, s |-> StartTime]
  /\ sent_c = << >> /\ rcvd_s = << >> /\ sent_s = << >> /\ rcvd_c = << >>
  /\ calls = [c |-> 0, s |-> 0]
  /\ cmdlog = << >>
  /\ raised = [c |-> "", s |-> "", after |-> 0]
  /\ hit = [dir |-> "", kind |-> "", before |-> << >>, id |-> Zero32]
  /\ guard = [parked |-> << >>, seen |-> {}, replaying |-> FALSE, ticks |-> 0]

\* pack_client_data puts its length words on the wire
MaskClientSend ==
  /\ last.op = ""
  /\ c2s' = client_words(client, last.len, << >>)
  /\ last' = [last EXCEPT !.op = "client_words"]
  /\ UNCHANGED <<client, cdata, server, sdata, s2c, now, sent_c, rcvd_s,
                 sent_s, rcvd_c, calls, cmdlog, raised, hit, guard>>

\* server_post_decrypt reads data_len and the command words
MaskServerRecv ==
  /\ last.op = "client_words"
  /\ \E o \in {[server EXCEPT !.recv_buf = c2s]} :
     \E cw \in {CmdWords(o, o.recv_buf, server_data_len(o), 0)} :
        /\ server' = cw.o
        /\ last' = [last EXCEPT !.op = "CmdWords", !.got_len = cw.data_len,
                                !.got_cmd = (cw.cmd_len > 0), !.end = cw.end]
  /\ c2s' = << >>
  /\ UNCHANGED <<client, cdata, sdata, s2c, now, sent_c, rcvd_s, sent_s,
                 rcvd_c, calls, cmdlog, raised, hit, guard>>

\* pack_server_data puts its length word on the wire
MaskServerSend ==
  /\ last.op = ""
  /\ s2c' = server_words(server, last.len)
  /\ last' = [last EXCEPT !.op = "server_words"]
  /\ UNCHANGED <<client, cdata, server, sdata, c2s, now, sent_c, rcvd_s,
                 sent_s, rcvd_c, calls, cmdlog, raised, hit, guard>>

\* client_post_decrypt reads data_len
MaskClientRecv ==
  /\ last.op = "server_words"
  /\ \E o \in {[client EXCEPT !.recv_buf = s2c]} :
        /\ client' = o
        /\ last' = [last EXCEPT !.op = "client_data_len",
                                !.got_len = client_data_len(o), !.end = "ok"]
  /\ s2c' = << >>
  /\ UNCHANGED <<cdata, server, sdata, c2s, now, sent_c, rcvd_s, sent_s,
                 rcvd_c, calls, cmdlog, raised, hit, guard>>

NextMask ==
  \/ MaskClientSend
  \/ MaskServerRecv
  \/ MaskServerSend
  \/ MaskClientRecv

SpecMask == InitMask /\ [][NextMask]_vars

\* the 16-bit word at bytes i and i + 1 of the chain head drawn
HeadWord(i) == unpack_H(Slice(last.head, i, i + 2))

IdLimit == <<0, 0, 0, 255>>

\* the values rand_bytes(4) returns for local_client_id
FreshCids == {<<5, 6, 7, 8>>, <<1, 1, 1, 1>>}

\* the values rand_bytes(4) returns for the connection_id base
FreshConns == {<<0, 0, 0, 0>>, <<8, 0, 0, 77>>, <<255, 255, 255, 255>>}

\* connection_id of a handle that has served many sessions
AgedConns == {<<255, 255, 255, 254>>, <<0, 0, 0, 255>>, <<1, 0, 0, 255>>}

\* the sessions made on the handle
MaxSessions == 3

\* the handle and the ranges of connection ids carried so far, one range
\* for each time local_client_id was generated
FreshStart(d, ranges) ==
  /\ cdata = d
  /\ last = [op |-> "", prev |-> d, cid |-> << >>, conn |-> Zero32,
             ranges |-> ranges]

InitFresh ==
  /\ \/ FreshStart(set_server_info(obfs_auth_akarin_data, ClientInfo), << >>)
     \/ \E cid \in FreshCids : \E base \in FreshConns : \E c \in AgedConns :
          FreshStart([set_server_info(obfs_auth_akarin_data, ClientInfo)
                        EXCEPT !.local_client_id = cid, !.connection_id = c],
                     <<[cid |-> cid,
                        lo |-> Add32(<<base[1], base[2], base[3], 0>>, One32),
                        hi |-> c]>>)
  /\ client = NewClient
  /\ server = NewServer
  /\ sdata = set_server_info(obfs_auth_akarin_data, ServerInfo)
  /\ c2s = << >> /\ s2c = << >>
  /\ now = [c |-> StartTime, s |-> StartTime]
  /\ sent_c = << >> /\ rcvd_s = << >> /\ sent_s = << >> /\ rcvd_c = << >>
  /\ calls = [c |-> 0, s |-> 0]
  /\ cmdlog = << >>
  /\ raised = [c |-> "", s |-> "", after |-> 0]
  /\ hit = [dir |-> "", kind |-> "", before |-> << >>, id |-> Zero32]
  /\ guard = [parked |-> << >>, seen |-> {}, replaying |-> FALSE, ticks |-> 0]

\* ranges after a handshake carrying cid and conn: the last range grows by
\* conn when the handshake continues it, and a new range starts otherwise
Ranged(ranges, cid, conn) ==
  IF /\ ranges # << >>
     /\ ranges[Len(ranges)].cid = cid
     /\ conn = Add32(ranges[Len(ranges)].hi, One32)
  THEN [ranges EXCEPT ![Len(ranges)].hi = conn]
  ELSE Append(ranges, [cid |-> cid, lo |-> conn, hi |-> conn])

\* a new session on the handle calls auth_data
FreshSession(cid, conn) ==
  /\ calls.c < MaxSessions
  /\ \E r \in {auth_data(cdata, now.c, cid, conn)} :
        /\ cdata' = r.d
        /\ last' = [op |-> "auth_data", prev |-> cdata,
                    cid |-> Slice(r.data, 4, 8), conn |-> Slice(r.data, 8, 12),
                    ranges |-> Ranged(last.ranges, Slice(r.data, 4, 8),
                                      Slice(r.data, 8, 12))]
  /\ calls' = [calls EXCEPT !.c = @ + 1]
  /\ UNCHANGED <<client, server, sdata, c2s, s2c, now, sent_c, rcvd_s, sent_s,
                 rcvd_c, cmdlog, raised, hit, guard>>

NextFresh == \E cid \in FreshCids : \E conn \in FreshConns :
  FreshSession(cid, conn)

SpecFresh == InitFresh /\ [][NextFresh]_vars

\* a <= b as 32-bit values
Le32(a, b) == ~Lt32(b, a)

\* the handshake just made found a local_client_id on the handle and a
\* connection_id not above 0xFF000000
Continues ==
  /\ last.op = "auth_data"
  /\ last.prev.local_client_id # << >>
  /\ Le32(last.prev.connection_id, IdLimit)

\* the handshake just made regenerated local_client_id and the base
Regenerates == last.op = "auth_data" /\ ~Continues

\* the handshake just made carries the connection_id after the previous one
\* and leaves local_client_id alone
StepsByOne ==
  /\ last.cid = last.prev.local_client_id
  /\ last.conn = Add32(last.prev.connection_id, One32)
  /\ cdata.local_client_id = last.cid
  /\ cdata.connection_id = last.conn

\* the handshake just made carries a connection_id one above a base of at
\* most 0x00FFFFFF
FromNewBase ==
  /\ Le32(One32, last.conn) /\ Le32(last.conn, <<0, 0, 0, 1>>)
  /\ last.cid \in FreshCids
  /\ cdata.local_client_id = last.cid
  /\ cdata.connection_id = last.conn

\* the regeneration happens on the first session after connection_id
\* exceeds 0xFF000000 and no later
RegeneratesInTime ==
  /\ Regenerates =>
       (last.prev.local_client_id = << >>
        \/ last.prev.connection_id = Add32(IdLimit, One32))
  /\ Le32(cdata.connection_id, Add32(IdLimit, One32))

\* two ranges of connection ids under one local_client_id share an id
Overlap(r1, r2) ==
  /\ r1.cid = r2.cid
  /\ Le32(r1.lo, r2.hi) /\ Le32(r2.lo, r1.hi)

\* C25 as stated: a handshake that leaves local_client_id as it was carries
\* the connection_id after the previous one, a regeneration happens on the
\* first session after connection_id exceeds 0xFF000000 and starts from a
\* base of at most 0x00FFFFFF, and no two handshakes with the same
\* local_client_id carry the same connection_id.
C25_FreshConnectionIds ==
  last.op = "auth_data" =>
    /\ Continues => StepsByOne
    /\ Regenerates => FromNewBase
    /\ RegeneratesInTime
    /\ last.cid = last.prev.local_client_id =>
         last.conn = Add32(last.prev.connection_id, One32)
    /\ \A i \in 1..Len(last.ranges) : \A j \in 1..Len(last.ranges) :
         i # j => ~Overlap(last.ranges[i], last.ranges[j])

\* C25 amended: between two regenerations each handshake carries the
\* connection_id after the previous one under the same local_client_id, a
\* regeneration happens on the first session after connection_id exceeds
\* 0xFF000000 and starts from a base of at most 0x00FFFFFF, and the
\* handshakes made between two regenerations carry different connection ids.
C25_FreshBetweenRegenerations ==
  last.op = "auth_data" =>
    /\ Continues => StepsByOne
    /\ Regenerates => FromNewBase
    /\ RegeneratesInTime
    /\ \A i \in 1..Len(last.ranges) :
         /\ Le32(last.ranges[i].lo, last.ranges[i].hi)
         /\ Le32(last.ranges[i].hi, Add32(IdLimit, One32))
    /\ last.ranges[Len(last.ranges)].cid = last.cid
    /\ last.ranges[Len(last.ranges)].hi = last.conn
    /\ Len(last.ranges) > 1 =>
         (Regenerates \/ last.ranges[Len(last.ranges)].lo # last.conn)

\* a session regenerated local_client_id after connection_id had passed
\* 0xFF000000, and the next session continued from the new base
C25_Witness ==
  /\ Continues
  /\ Len(last.ranges) = 2
  /\ last.ranges[1].hi = Add32(IdLimit, One32)
  /\ last.ranges[2].hi = Add32(last.ranges[2].lo, One32)


(***************************************************************************)
(* One client whose handshakes reach the guard in the order it made them,  *)
(* each with the connection id after the previous one.  The guard starts   *)
(* as it stands after a number of such handshakes, none of them disposed.  *)
(***************************************************************************)
\* the client
HonestClient == <<5, 6, 7, 8>>

\* the connection ids of its first handshake
HonestFirst == {9}

\* the numbers of handshakes made before the start: none, one, as many as
\* keep front where the first left it, as many as make front catch up with
\* the first id, and more than 0x4000
HonestRuns == {0, 1, 4031, 4032, 4160, 16383, 16384, 16500}

\* the bound on the number of calls of the guard after the start
MaxHonestOps == 4

RECURSIVE InOrder(_, _, _, _)
\* n calls of obfs_auth_akarin_data.insert at time t on r.d with the
\* connection ids conn, conn + 1, ...: the data afterwards, and whether
\* r.ok held and every call returned True
InOrder(r, conn, n, t) ==
  IF n = 0 THEN r
  ELSE IF n = 1 THEN
    Only({ [d |-> x.d, ok |-> r.ok /\ x.ok]
         : x \in {data_insert(r.d, UserId, HonestClient, conn, t)} })
  ELSE
    Only({ InOrder(m, conn + n \div 2, n - n \div 2, t)
         : m \in {InOrder(r, conn, n \div 2, t)} })

\* the record of the handshakes so far: conn is the connection id of the
\* latest, ret whether every one was accepted
HonestCall(op, conn, ok, n) == [op |-> op, conn |-> conn, ret |-> ok, step |-> n]

InitHonest ==
  /\ client = NewClient
  /\ cdata = set_server_info(obfs_auth_akarin_data, ClientInfo)
  /\ server = NewServer
  /\ \E first \in HonestFirst : \E k \in HonestRuns :
     \E r \in {InOrder([d |-> set_server_info(obfs_auth_akarin_data,
                                              ServerInfo), ok |-> TRUE],
                       first, k, StartTime)} :
        /\ sdata = r.d
        /\ last = HonestCall("", first + k - 1, r.ok, 0)
  /\ c2s = << >> /\ s2c = << >>
  /\ now = [c |-> StartTime, s |-> StartTime]
  /\ sent_c = << >> /\ rcvd_s = << >> /\ sent_s = << >> /\ rcvd_c = << >>
  /\ calls = [c |-> 0, s |-> 0]
  /\ cmdlog = << >>
  /\ raised = [c |-> "", s |-> "", after |-> 0]
  /\ hit = [dir |-> "", kind |-> "", before |-> << >>, id |-> Zero32]
  /\ guard = [parked |-> << >>, seen |-> {}, replaying |-> FALSE, ticks |-> 0]

\* the client's next handshake reaches obfs_auth_akarin_data.insert
HonestInsert ==
  /\ last.step < MaxHonestOps
  /\ \E r \in {data_insert(sdata, UserId, HonestClient, last.conn + 1,
                            now.s)} :
        /\ sdata' = r.d
        /\ last' = HonestCall("insert", last.conn + 1, last.ret /\ r.ok,
                              last.step + 1)
  /\ UNCHANGED <<client, cdata, server, c2s, s2c, now, sent_c, rcvd_s,
                 sent_s, rcvd_c, calls, cmdlog, raised, hit, guard>>

\* one of the client's sessions is disposed:
\* obfs_auth_akarin_data.remove
HonestRemove ==
  /\ last.step < MaxHonestOps
  /\ HasQueue(sdata, HonestClient)
  /\ QueueOf(sdata, HonestClient).ref > 0
  /\ sdata' = data_remove(sdata, UserId, HonestClient)
  /\ last' = [last EXCEPT !.op = "remove", !.step = @ + 1]
  /\ UNCHANGED <<client, cdata, server, c2s, s2c, now, sent_c, rcvd_s,
                 sent_s, rcvd_c, calls, cmdlog, raised, hit, guard>>

NextHonest ==
  \/ HonestInsert
  \/ HonestRemove
  \/ \E dt \in TickSteps : Tick(dt)

SpecHonest == InitHonest /\ [][NextHonest]_vars

\* C29: every handshake of the client so far was accepted.
C29_HonestNeverLockedOut == last.ret

\* the client's handshake was accepted after more than 0x4000 earlier ones
\* that were not disposed, front having moved past the first id
C29_Witness ==
  /\ last.op = "insert"
  /\ last.ret
  /\ \E first \in HonestFirst : 
       /\ last.conn > first + 16384
       /\ QueueOf(sdata, HonestClient).front > first
  /\ QueueOf(sdata, HonestClient).ref > 16384


(***************************************************************************)
(* Sessions whose client advertises an overhead of its choice to a server  *)
(* configured with a tcp_mss of its own.                                    *)
(***************************************************************************)
\* the overhead the client is configured with and packs into its handshake
AdvertisedOverheads == {4, 402, 1459, 1460, 65535}

\* the tcp_mss the server is configured with
ConfiguredMss == {406, 1460, 2000}

InitOverhead ==
  /\ \E ov \in AdvertisedOverheads : \E mss \in ConfiguredMss :
       /\ client = auth_akarin_rand("auth_akarin_rand",
                                    [ClientInfo EXCEPT !.overhead = ov])
       /\ server = auth_akarin_rand("auth_akarin_rand",
                                    [ServerInfo EXCEPT !.tcp_mss = mss])
  /\ cdata = set_server_info(obfs_auth_akarin_data, ClientInfo)
  /\ sdata = set_server_info(obfs_auth_akarin_data, ServerInfo)
  /\ c2s = << >> /\ s2c = << >>
  /\ now = [c |-> StartTime, s |-> StartTime]
  /\ sent_c = << >> /\ rcvd_s = << >> /\ sent_s = << >> /\ rcvd_c = << >>
  /\ calls = [c |-> 0, s |-> 0]
  /\ cmdlog = << >>
  /\ raised = [c |-> "", s |-> "", after |-> 0]
  /\ hit = [dir |-> "", kind |-> "", before |-> << >>, id |-> Zero32]
  /\ guard = [parked |-> << >>, seen |-> {}, replaying |-> FALSE, ticks |-> 0]
  /\ last = NoCall

\* the plaintexts the server sends: short ones, a unit_len of 1 making a
\* packet of every byte
OverheadPlain == {<<7>>, <<1, 2, 3, 4, 5>>}

\* the network may deliver the 36 bytes of the handshake on their own
HandshakePiece ==
  {k \in {36} : k < Len(c2s) /\ Len(server.recv_buf) = 0
                /\ ~server.has_recv_header}

NextOverhead ==
  \/ calls.c = 0 /\ ClientSend(<< >>, 0, NoAlt)
  \/ \E n \in Pieces(c2s, server.recv_buf) \cup HandshakePiece : ServerRecv(n)
  \/ calls.s < MaxWrapSends /\ \E buf \in OverheadPlain :
       ServerSend(buf, NoAlt)
  \/ \E n \in Pieces(s2c, client.recv_buf) : ClientRecv(n)

SpecOverhead == InitOverhead /\ [][NextOverhead]_vars

\* C31: a server_pre_encrypt call on a session whose handshake was accepted
\* terminates, and leaves unit_len = tcp_mss - client_over_head above 0.
C31_ServerSendTerminates ==
  (/\ last.op = "server_pre_encrypt"
   /\ server.has_recv_header
   /\ ~last.raw_before)
    => /\ last.exc # "nontermination"
       /\ server.unit_len > 0

====
